---- MODULE Spec2Model ----
(***************************************************************************)
(* OptionSentinel proxy server (src/server/server.js): the ticker          *)
(* subscription registry and the WebSocket connection handlers, the TTL    *)
(* cache, the broadcast scheduler, the scan and the scorer; and the        *)
(* client's feed hook (src/src/hooks/useFlowFeed.ts).                      *)
(*                                                                         *)
(* The specifications share the variables:                                 *)
(*   Spec       connection lifecycle + registry (handlers of wss/ws),      *)
(*              every response the scans need being in the cache           *)
(*   SpecCache  cacheGet / cacheSet / the 60 s sweep under a clock         *)
(*   SpecSweep  SpecCache with the sweep timer and the clock fair          *)
(*   SpecFetch  tradierFetch: lookup, upstream call, response, store       *)
(*   SpecBcast  broadcast cycles: scans, upstream calls, cache, sends      *)
(*   SpecScan   GET /api/flow for one ticker while a viewer is subscribed  *)
(*   SpecScore  scoreContract and the scan's filter on bounded contracts   *)
(*   SpecRest   GET /api/quote/:ticker for one symbol after the other      *)
(*   SpecOverlap  two broadcast cycles in flight, timestamps recorded      *)
(*   SpecOpen   channels opening and closing, every request settling       *)
(*   SpecTimer  the timer among failed requests and rejected subscribes    *)
(*   SpecOrder  cycles and GET /api/flow over two tickers not yet cached   *)
(*   SpecMid    subscribes and closes while cycles wait for GME            *)
(*   SpecFresh  one chain key fetched with 20 s and with 15 s              *)
(*   SpecHook   the hook's socket, reconnect timer and unmount             *)
(***************************************************************************)
EXTENDS Integers, Sequences, FiniteSets, TLC

\* ------------------------------------------------------------------ bounds

\* Number of WebSocket connections the environment may open.
MaxConns == 2

Conns == 1..MaxConns

\* The clock advances in steps of ClockStep ms up to MaxClock ms.
ClockStep == 5000
MaxClock == 25000
BcastClock == 5000

\* ------------------------------------------------------- program constants

FEED_TICKERS == <<"SPY", "QQQ", "TSLA", "NVDA", "AAPL", "MSFT", "AMZN", "META">>

\* The cap of getTickersToScan: .slice(0, 20).
MAX_TICKERS == 20

\* ws readyState values: 1 OPEN, 2 CLOSING, 3 CLOSED.
WS_OPEN == 1
WS_CLOSING == 2
WS_CLOSED == 3
\* A connection slot the environment has not opened yet (no ws object exists).
WS_NONE == 0

\* ------------------------------------------------------------- JS helpers

Range(s) == {s[i] : i \in 1..Len(s)}

SeqHas(s, x) == \E i \in 1..Len(s) : s[i] = x

\* String.prototype.toUpperCase on the ticker strings the environment sends.
toUpperCase(t) ==
    CASE t = "gme" -> "GME"
      [] t = "amc" -> "AMC"
      [] t = "tsla" -> "TSLA"
      [] OTHER -> t

\* Array.prototype.map(t => t.toUpperCase()).
MapUpper(list) == [i \in 1..Len(list) |-> toUpperCase(list[i])]

\* new Set(iterable): insertion-ordered, first occurrence kept.
RECURSIVE NewSetFrom(_, _, _)
NewSetFrom(list, i, acc) ==
    IF i > Len(list) THEN acc
    ELSE NewSetFrom(list, i + 1,
                    IF SeqHas(acc, list[i]) THEN acc ELSE Append(acc, list[i]))

NewSet(list) == NewSetFrom(list, 1, <<>>)

\* Array.prototype.slice(0, n).
Slice0(s, n) == SubSeq(s, 1, IF Len(s) < n THEN Len(s) ELSE n)

\* A JS Map as the sequence of its entries [k, n] in insertion order.
MapHas(m, k) == \E i \in 1..Len(m) : m[i].k = k

\* Map.prototype.get; undefined is rendered as 0 (both are falsy under ||).
MapGet(m, k) ==
    IF MapHas(m, k) THEN (CHOOSE e \in Range(m) : e.k = k).n ELSE 0

\* Map.prototype.set: an existing key keeps its position, a new one is appended.
MapSet(m, k, v) ==
    IF MapHas(m, k)
    THEN [i \in 1..Len(m) |-> IF m[i].k = k THEN [k |-> k, n |-> v] ELSE m[i]]
    ELSE Append(m, [k |-> k, n |-> v])

\* Map.prototype.delete.
MapDelete(m, k) == SelectSeq(m, LAMBDA e : e.k # k)

\* Array.from(map.keys()).
MapKeys(m) == [i \in 1..Len(m) |-> m[i].k]

\* a || b on numbers.
OrElse(a, b) == IF a = 0 THEN b ELSE a

\* ----------------------------------------------------------------- state

VARIABLES
    readyState,           \* [Conns -> WS_*]: the ws object's readyState; a conn is
                          \* in wss.clients iff it is WS_OPEN or WS_CLOSING
    clientSubscriptions,  \* [Conns -> Seq(ticker)]: the closure's Set, in order
    isPremium,            \* [Conns -> BOOLEAN]: the closure's isPremium
    dynamicTickers,       \* the registry Map: Seq([k, n])
    lastEv,               \* the handler that ran last and its input
    sent,                 \* messages the last step passed to ws.send
    started,              \* whether the last handler started a broadcast cycle
    now,                  \* Date.now(), in ms
    cache,                \* the cache Map: [key -> [value, expiresAt]] on its keys
    cacheRet,             \* the last cache or fetch call: its kind, key, result
                          \* and time, and the status of the response if any
    lastSet,              \* per key, the latest cacheSet: value, time, ttl, and
                          \* whether a sweep or a cacheGet of the key has run since
    cycles,               \* [CycleIds -> broadcast cycle]: the runs of broadcastFlow
                          \* that are suspended on their scans (st "scanning"),
                          \* or have sent and still have requests in flight
                          \* (st "draining")
    calls,                \* the upstream requests in flight
    issued,               \* the keys the last step sent upstream
    wrote,                \* the keys the last step wrote to the cache
    scoreIn,              \* a contract of a chain response, the quote, the ticker
                          \* and the registry of the scan that scores it
    scoreOut,             \* what scoreContract and the scan's filter made of it
    universe,             \* the tickers of the broadcast cycle the last step
                          \* started, <<>> if it started none
    finished,             \* the run whose flow the last step sent: the channels
                          \* open when it was called, and the clock then
    stamps,               \* [Conns -> timestamp of the latest flow_update the
                          \* channel was sent], recorded in SpecOverlap
    wsRef,                \* useFlowFeed: the state of the socket in wsRef.current
    reconnectAttempts,    \* useFlowFeed: reconnectAttempts.current
    reconnectTimer,       \* useFlowFeed: the timer of reconnectTimer.current
    isMounted,            \* useFlowFeed: isMounted.current
    connected,            \* useFlowFeed: the connected state
    hookEv                \* useFlowFeed: the callback that ran last, and the
                          \* timer connects since the socket last opened

regVars == <<readyState, clientSubscriptions, isPremium, dynamicTickers,
             lastEv, started>>

cacheGhost == <<cacheRet, lastSet>>

scanVars == <<cycles, calls, issued, wrote>>

scoreVars == <<scoreIn, scoreOut>>

flowGhost == <<universe, finished, stamps>>

hookVars == <<wsRef, reconnectAttempts, reconnectTimer, isMounted, connected, hookEv>>

serverVars == <<regVars, sent, now, cache, cacheGhost, scanVars, scoreVars, flowGhost>>

vars == <<serverVars, hookVars>>

\* ------------------------------------------------ the client's hook

\* useFlowFeed.ts lines 38-39.
RECONNECT_DELAY_MS == 5000

MAX_RECONNECT_ATTEMPTS == 10

\* No timer was ever set (reconnectTimer.current is null), or the timer set
\* last: whether it is still to fire, its delay, and the time left.
NoTimer == [set |-> FALSE, pending |-> FALSE, delay |-> 0, left |-> 0]

HookEvent(type, tries) == [type |-> type, tries |-> tries]

\* The refs and the state of lines 43-50 before the effect has run.
HookNew ==
    /\ wsRef = "null"
    /\ reconnectAttempts = 0
    /\ reconnectTimer = NoTimer
    /\ isMounted = TRUE
    /\ connected = FALSE
    /\ hookEv = HookEvent("new", 0)


\* ------------------------------------------------------------ environment

\* The 13 further symbols a viewer may follow: with them the registry holds
\* more than MAX_TICKERS - Len(FEED_TICKERS) = 12 non-default keys.
BigList ==
    <<"X01", "X02", "X03", "X04", "X05", "X06", "X07",
      "X08", "X09", "X10", "X11", "X12", "X13">>

\* The values of msg.tickers in well-formed subscribe messages.
TickerLists ==
    { <<>>,
      <<"gme", "AMC">>,
      <<"AMC", "tsla", "amc">>,
      BigList }

NoTickers == <<>>

\* A WebSocket text frame as the handler sees it:
\*   parses   whether JSON.parse(message) succeeds
\*   type     msg.type
\*   premium  msg.isPremium (false when the field is absent)
\*   shape    "list": msg.tickers is an array of strings (tickers holds it);
\*            "missing": msg.tickers is undefined;
\*            "numbers": msg.tickers is an array whose items are not strings
Frame(parses, type, premium, shape, tickers) ==
    [parses |-> parses, type |-> type, premium |-> premium,
     shape |-> shape, tickers |-> tickers]

SubscribeFrames ==
    {Frame(TRUE, "subscribe", TRUE, "list", l) : l \in TickerLists}

PlainFrames ==
    { Frame(TRUE, "subscribe", FALSE, "list", <<"GME">>),
      Frame(TRUE, "subscribe", FALSE, "missing", NoTickers) }

BadFrames ==
    { Frame(FALSE, "", FALSE, "missing", NoTickers),
      Frame(TRUE, "subscribe", TRUE, "missing", NoTickers),
      Frame(TRUE, "subscribe", TRUE, "numbers", NoTickers) }

OtherFrames == { Frame(TRUE, "ping", FALSE, "missing", NoTickers) }

Frames == SubscribeFrames \cup PlainFrames \cup BadFrames \cup OtherFrames

\* ------------------------------------------------------ registry (section 4.5)

\* Mutant of getTickersToScan: the dynamic keys are put before the defaults.
getTickersToScan_DynamicFirst(reg) ==
    Slice0(NewSet(MapKeys(reg) \o FEED_TICKERS), MAX_TICKERS)

\* Mutant of getTickersToScan: the dynamic keys are taken newest first.
getTickersToScan_NewestFirst(reg) ==
    LET keys == MapKeys(reg)
        newest == [i \in 1..Len(keys) |-> keys[Len(keys) + 1 - i]]
    IN  Slice0(NewSet(FEED_TICKERS \o newest), MAX_TICKERS)

\* getTickersToScan: [...new Set([...FEED_TICKERS, ...dynamicList])].slice(0, 20)
getTickersToScan(reg) ==
    Slice0(NewSet(FEED_TICKERS \o MapKeys(reg)), MAX_TICKERS)

\* Mutant of DecrOld: the count is decremented but the entry is never deleted.
DecrOld_NoDelete(reg, t, newSubs) ==
    IF ~SeqHas(newSubs, t)
    THEN MapSet(reg, t, OrElse(MapGet(reg, t), 1) - 1)
    ELSE reg

\* Mutant of DecrOld: a ticker dropped from the set is never released.
DecrOld_NoRelease(reg, t, newSubs) == reg

\* One iteration of the subscribe handler's first forEach (lines 398-402).
DecrOld(reg, t, newSubs) ==
    IF ~SeqHas(newSubs, t)
    THEN LET count == OrElse(MapGet(reg, t), 1)
         IN  IF count <= 1 THEN MapDelete(reg, t) ELSE MapSet(reg, t, count - 1)
    ELSE reg

RECURSIVE DecrOldLoop(_, _, _, _)
DecrOldLoop(reg, oldSubs, newSubs, i) ==
    IF i > Len(oldSubs) THEN reg
    ELSE DecrOldLoop(DecrOld(reg, oldSubs[i], newSubs), oldSubs, newSubs, i + 1)

\* Mutant of IncrNew: the clientSubscriptions.has(t) test is missing.
IncrNew_Always(reg, t, oldSubs) ==
    MapSet(reg, t, OrElse(MapGet(reg, t), 0) + 1)

\* One iteration of the subscribe handler's second forEach (lines 407-409).
IncrNew(reg, t, oldSubs) ==
    IF ~SeqHas(oldSubs, t)
    THEN MapSet(reg, t, OrElse(MapGet(reg, t), 0) + 1)
    ELSE reg

RECURSIVE IncrNewLoop(_, _, _, _)
IncrNewLoop(reg, oldSubs, newSubs, i) ==
    IF i > Len(newSubs) THEN reg
    ELSE IncrNewLoop(IncrNew(reg, newSubs[i], oldSubs), oldSubs, newSubs, i + 1)

\* The accepted subscribe's registry update (lines 394-412): the new registry
\* and the connection's new clientSubscriptions.
SubscribeUpdate(reg, oldSubs, tickers) ==
    LET newSubs == NewSet(MapUpper(tickers))
        reg1 == DecrOldLoop(reg, oldSubs, newSubs, 1)
        reg2 == IncrNewLoop(reg1, oldSubs, newSubs, 1)
    IN  [reg |-> reg2, subs |-> newSubs]

\* Mutant of DecrClosed: the entry is deleted whatever its count.
DecrClosed_AlwaysDelete(reg, t) == MapDelete(reg, t)

\* One iteration of the close handler's forEach (lines 428-430).
DecrClosed(reg, t) ==
    LET count == OrElse(MapGet(reg, t), 1)
    IN  IF count <= 1 THEN MapDelete(reg, t) ELSE MapSet(reg, t, count - 1)

\* Mutant of CloseCleanup: only the first ticker of the set is released.
CloseCleanup_FirstOnly(reg, subs, i) ==
    IF Len(subs) = 0 THEN reg
    ELSE LET count == OrElse(MapGet(reg, subs[1]), 1)
         IN  IF count <= 1 THEN MapDelete(reg, subs[1])
             ELSE MapSet(reg, subs[1], count - 1)

RECURSIVE CloseCleanup(_, _, _)
CloseCleanup(reg, subs, i) ==
    IF i > Len(subs) THEN reg
    ELSE CloseCleanup(DecrClosed(reg, subs[i]), subs, i + 1)

\* ------------------------------------------------- broadcast, sync prefix

\* wss.clients: the ws library adds a socket before 'connection' is emitted and
\* removes it when the socket has closed; a CLOSING socket is still a member.
Clients(rs) == {c \in Conns : rs[c] \in {WS_OPEN, WS_CLOSING}}

\* The handler did not call broadcastFlow.
NoCycle == FALSE

\* Mutant of broadcastFlowStart: the guard of line 353 is missing.
broadcastFlowStart_NoGuard(rs) == TRUE

\* Mutant of broadcastFlowStart: once a client has closed, broadcastFlow
\* returns at once.
broadcastFlowStart_NoneClosed(rs) ==
    Cardinality(Clients(rs)) # 0 /\ \A c \in Conns : rs[c] # WS_CLOSED

\* broadcastFlow's guard (line 353): with no client connected it returns at
\* once; otherwise it reads getTickersToScan() and starts the scans (a cycle).
broadcastFlowStart(rs) == Cardinality(Clients(rs)) # 0

\* ------------------------------------------------------------- messages

\* A message passed to ws.send: its receiver, its type and, for a flow_update,
\* its data, timestamp and stats.
Msg(c, type, data, timestamp, scanning, results) ==
    [to |-> c, type |-> type, data |-> data, timestamp |-> timestamp,
     scanning |-> scanning, results |-> results]

\* The reply of line 389.
ErrorMsg(c) == Msg(c, "error", <<>>, 0, 0, 0)

\* What the last handler was: its kind, its connection (0 for the timer), the
\* msg.tickers of an accepted subscribe, the registry and the connection's set
\* as they were when the handler was entered, and, when it directly follows an
\* accepted subscribe of the same connection (again), the registry and the set
\* as they were before that one.
Event(type, c, tickers) ==
    LET again == lastEv.type = "subscribe" /\ lastEv.conn = c /\ type = "subscribe"
    IN  [type |-> type, conn |-> c, tickers |-> tickers,
         regBefore |-> dynamicTickers,
         subsBefore |-> IF c \in Conns THEN clientSubscriptions[c] ELSE <<>>,
         again |-> again,
         reg2 |-> IF again THEN lastEv.regBefore ELSE <<>>,
         subs2 |-> IF again THEN lastEv.subsBefore ELSE <<>>]

NoEvent ==
    [type |-> "init", conn |-> 0, tickers |-> <<>>,
     regBefore |-> <<>>, subsBefore |-> <<>>,
     again |-> FALSE, reg2 |-> <<>>, subs2 |-> <<>>]

\* ------------------------------------------------- TTL cache (lines 47-65)

\* The request paths of the scan (lines 173, 174, 186), a path being its
\* template and the parameters substituted into it.
QuoteKey(ticker) == [path |-> "/markets/quotes", symbol |-> ticker, expiration |-> ""]

ExpKey(ticker) ==
    [path |-> "/markets/options/expirations", symbol |-> ticker, expiration |-> ""]

ChainKey(ticker, exp) ==
    [path |-> "/markets/options/chains", symbol |-> ticker, expiration |-> exp]

NoKey == [path |-> "", symbol |-> "", expiration |-> ""]

\* The ttlMs of the scan's quote, expirations and chain fetches.
QUOTE_TTL == 10000
EXP_TTL == 60000
CHAIN_TTL == 20000

\* The keys, payloads and ttls the cache is exercised with in SpecCache.
CacheKeys == {QuoteKey("SPY"), ExpKey("SPY")}

Payloads == {"payload-a", "payload-b"}

CacheTtls == {QUOTE_TTL, CHAIN_TTL}

\* cacheGet's null.
Null == "null"

\* Mutant of Expired: >= in place of >.
Expired_AtExpiry(entry, t) == t >= entry.expiresAt

\* The staleness test of cacheGet and of the sweep: now > entry.expiresAt.
Expired(entry, t) == t > entry.expiresAt

\* Map.prototype.delete on the cache.
CacheDelete(c, key) == [k \in DOMAIN c \ {key} |-> c[k]]

\* cacheGet (lines 49-54) at time t: the value returned and the cache left.
cacheGet(c, key, t) ==
    IF key \notin DOMAIN c THEN [ret |-> Null, cache |-> c]
    ELSE IF Expired(c[key], t) THEN [ret |-> Null, cache |-> CacheDelete(c, key)]
    ELSE [ret |-> c[key].value, cache |-> c]

\* cacheSet (lines 56-58) at time t: the cache left.
cacheSet(c, key, value, ttlMs, t) ==
    [k \in DOMAIN c \cup {key} |->
        IF k = key THEN [value |-> value, expiresAt |-> t + ttlMs] ELSE c[k]]

\* Mutant of cacheSweep: nothing is removed.
cacheSweep_Noop(c, t) == c

\* The body of the 60 s sweep (lines 61-64) at time t: the cache left.
cacheSweep(c, t) == [k \in {x \in DOMAIN c : ~Expired(c[x], t)} |-> c[k]]

EmptyCache == [k \in {} |-> Null]

NoCall == [op |-> "none", key |-> NoKey, ret |-> Null, at |-> 0, status |-> 0]

NeverSet ==
    [set |-> FALSE, value |-> Null, at |-> 0, ttl |-> 0, swept |-> FALSE, read |-> FALSE]

\* ------------------------------------------------------ broadcast cycles

\* At most MaxCycles runs of broadcastFlow are suspended at a time.
MaxCycles == 1

CycleIds == 1..MaxCycles

\* A slot without a run; clients and at record, for a run, the channels that
\* were open when it was called, and the clock then.
FreeCycle ==
    [st |-> "free", tickers |-> <<>>, scans |-> <<>>, clients |-> {}, at |-> 0]

\* The slots of SpecOverlap, where broadcast cycles overlap.
MaxOverlap == 2
Slots == 1..MaxOverlap

\* No flow was sent by the last step.
NoFinish == [some |-> FALSE, slot |-> 0, clients |-> {}, at |-> 0]

\* A flow was sent by the last step: the slot of the cycle that sent it (0 if
\* it never waited), the channels open when it was called and the clock then.
Finish(slot, clients, at) ==
    [some |-> TRUE, slot |-> slot, clients |-> clients, at |-> at]

\* No flow_update was sent to the channel yet.
NoStamp == -1

\* ------------------------------------------------------- upstream data

\* The expiration dates the provider lists, and new Date(date) - new Date(0)
\* in ms, the clock of the model starting at 0.
DAY_MS == 86400000

DateMs(date) ==
    CASE date = "2026-11-06" -> 5 * DAY_MS
      [] date = "2026-11-13" -> 12 * DAY_MS
      [] date = "2026-11-20" -> 19 * DAY_MS
      [] date = "2026-11-27" -> 26 * DAY_MS
      [] date = "2026-11-08" -> 7 * DAY_MS
      [] date = "2026-11-09" -> 8 * DAY_MS
      [] date = "2026-10-25" -> (-7) * DAY_MS
      [] OTHER -> 0

\* new Date(date) is a date: '', the default of a missing expiration_date,
\* gives an Invalid Date.
ValidDate(date) == date # ""

\* The NaN that arithmetic on an Invalid Date gives; every comparison with it
\* is false.
NaN == -1000000

\* A JSON field that is absent, a single object, or an array (Tradier returns
\* a bare object in place of a one-element array).
Absent == [shape |-> "absent", items |-> <<>>]
Single(x) == [shape |-> "single", items |-> <<x>>]
Array(xs) == [shape |-> "array", items |-> xs]

\* ensureArray (lines 69-72).
ensureArray(obj) ==
    IF obj.shape = "absent" THEN <<>>
    ELSE IF obj.shape = "array" THEN obj.items
    ELSE <<obj.items[1]>>

\* An option contract of a chain response; prices are in cents.
Contract(symbol, type, exp, strike, volume, oi, last, bid, ask) ==
    [symbol |-> symbol, option_type |-> type, expiration_date |-> exp,
     strike |-> strike, volume |-> volume, open_interest |-> oi,
     last |-> last, bid |-> bid, ask |-> ask]

\* The responses the provider may give to a request: "A" is the normal
\* response, "B" (quotes of SPY only) a response without quotes.quote.
Variants(key) ==
    IF key.path = "/markets/quotes" /\ key.symbol = "SPY" THEN {"A", "B"} ELSE {"A"}

\* data?.quotes?.quote of a quotes response.
QuoteOf(key, v) ==
    IF v = "B" THEN [present |-> FALSE, symbol |-> "", last |-> 0]
    ELSE [present |-> TRUE, symbol |-> key.symbol, last |-> 10000]

\* data?.expirations?.date of an expirations response.
DatesOf(key, v) ==
    CASE key.symbol = "SPY" -> Array(<<"2026-11-06", "2026-11-13">>)
      [] key.symbol = "GME" ->
             Array(<<"2026-11-06", "2026-11-13", "2026-11-20", "2026-11-27">>)
      [] key.symbol = "VXX" -> Absent
      [] OTHER -> Single("2026-11-06")

\* data?.options?.option of a chains response.
OptionsOf(key, v) ==
    CASE key.symbol = "SPY" /\ key.expiration = "2026-11-06" ->
             Array(<< Contract("SPY261106C00500000", "call", "2026-11-06",
                               50000, 3000, 100, 500, 480, 520),
                      Contract("SPY261106P00400000", "put", "2026-11-06",
                               40000, 10, 500, 100, 90, 120) >>)
      [] key.symbol = "TSLA" /\ key.expiration = "2026-11-06" ->
             Single(Contract("TSLA261106P00300000", "put", "2026-11-06",
                             30000, 300, 1000, 500, 480, 520))
      [] key.symbol = "GME" /\ key.expiration = "2026-11-06" ->
             Single(Contract("GME261106C00030000", "call", "2026-11-06",
                             3000, 100, 100, 500, 500, 520))
      [] key.symbol = "GME" /\ key.expiration = "2026-11-13" ->
             Array(<< Contract("GME261113C00035000", "call", "2026-11-13",
                               3500, 600, 100, 500, 480, 520) >>)
      [] OTHER -> Absent

\* --------------------------------------------------------------- scoring

ETFS == {"SPY", "QQQ", "IWM", "DIA", "VXX"}
MEGACAPS == {"TSLA", "NVDA", "AAPL", "MSFT", "AMZN", "META", "GOOGL"}

\* Math.ceil(a / b) for b > 0.
CeilDiv(a, b) == -((-a) \div b)

\* Mutant of NoiseResult: a discarded contract is marked with score -1.
NoiseResult_Negative ==
    [symbol |-> "", score |-> -1, sentiment |-> "",
     details |-> [volOiRatio |-> 0, daysToExp |-> 0]]

\* The result of the noise filters (lines 120-122): { score: 0 } and nothing
\* else; the absent fields are rendered as empty values.
NoiseResult ==
    [symbol |-> "", score |-> 0, sentiment |-> "",
     details |-> [volOiRatio |-> 0, daysToExp |-> 0]]

\* Mutant of isNoise: one floor of $25,000 for every ticker.
isNoise_FlatFloor(ticker, premium) == premium < 25000

\* The three early returns of lines 120-122, premium in dollars.
isNoise(ticker, premium) ==
    \/ ticker \in ETFS /\ premium < 1000000
    \/ ticker \in MEGACAPS /\ premium < 100000
    \/ premium < 25000

\* Mutant of premiumPoints: 50 points from $1,000,000 on.
premiumPoints_Steep(premium) ==
    IF premium >= 1000000 THEN 50
    ELSE IF premium >= 500000 THEN 30
    ELSE IF premium >= 100000 THEN 20
    ELSE IF premium >= 50000 THEN 10
    ELSE 0

\* Mutant of premiumPoints: the $100,000 tier awards 30.
premiumPoints_Generous(premium) ==
    IF premium >= 1000000 THEN 40
    ELSE IF premium >= 100000 THEN 30
    ELSE IF premium >= 50000 THEN 10
    ELSE 0

premiumPoints(premium) ==
    IF premium >= 1000000 THEN 40
    ELSE IF premium >= 500000 THEN 30
    ELSE IF premium >= 100000 THEN 20
    ELSE IF premium >= 50000 THEN 10
    ELSE 0

\* Mutant of ratioPoints: the tiers of ratio 2 and of ratio 1 are merged.
ratioPoints_Coarse(volume, oi) ==
    LET d == OrElse(oi, 1) IN
    IF volume >= 5 * d THEN 30
    ELSE IF volume >= d THEN 10
    ELSE 0

\* ratio = volume / (open_interest || 1), compared without dividing.
ratioPoints(volume, oi) ==
    LET d == OrElse(oi, 1) IN
    IF volume >= 5 * d THEN 30
    ELSE IF volume >= 2 * d THEN 20
    ELSE IF volume >= d THEN 10
    ELSE 0

Min(a, b) == IF a <= b THEN a ELSE b

\* Mutant of sentimentOf: a call is Bullish and a put Bearish, at the ask or
\* not.
sentimentOf_ByType(option_type, isAtAsk) ==
    IF option_type = "call" THEN "Bullish" ELSE "Bearish"

\* The sentiment of lines 148-153.
sentimentOf(option_type, isAtAsk) ==
    IF option_type = "call"
    THEN (IF isAtAsk THEN "Bullish" ELSE "Bearish (Sell)")
    ELSE (IF isAtAsk THEN "Bearish" ELSE "Bullish (Sell)")

\* scoreContract (lines 104-165) at clock t.  Prices are in cents, so
\* volume * last * 100 dollars is volume * last; the ratio of details is in
\* hundredths (toFixed(2)); the currency string of details.premium is not
\* part of the model.
scoreContract(contract, underlyingQuote, t) ==
    LET ticker == IF underlyingQuote.present /\ underlyingQuote.symbol # ""
                  THEN underlyingQuote.symbol ELSE "UNKNOWN"
        premium == contract.volume * contract.last
        isAtAsk == 2 * contract.last >= contract.bid + contract.ask
        daysOut == IF ValidDate(contract.expiration_date)
                   THEN CeilDiv(DateMs(contract.expiration_date) - t, DAY_MS)
                   ELSE NaN
        d == OrElse(contract.open_interest, 1)
        score == premiumPoints(premium)
                 + ratioPoints(contract.volume, contract.open_interest)
                 + (IF isAtAsk THEN 20 ELSE 0)
                 + (IF daysOut # NaN /\ daysOut <= 7 THEN 10 ELSE 0)
        sentiment == sentimentOf(contract.option_type, isAtAsk)
    IN  IF isNoise(ticker, premium) THEN NoiseResult
        ELSE [symbol |-> contract.symbol, score |-> Min(score, 100),
              sentiment |-> sentiment,
              details |-> [volOiRatio |-> (200 * contract.volume + d) \div (2 * d),
                           daysToExp |-> daysOut]]

\* Mutant of Signal: cost and premium take the ask before the last price.
Signal_AskFirst(contract, quote, ticker, t) ==
    LET result == scoreContract(contract, quote, t) IN
    [id |-> contract.symbol, ticker |-> toUpperCase(ticker),
     strike |-> contract.strike, volume |-> contract.volume,
     openInterest |-> contract.open_interest,
     expiration |-> contract.expiration_date,
     cost |-> OrElse(contract.ask, contract.last),
     type |-> IF contract.option_type = "call" THEN "Call" ELSE "Put",
     sentiment |-> result.sentiment,
     premium |-> contract.volume * OrElse(contract.ask, contract.last),
     score |-> result.score, details |-> result.details]

\* One element of the scan's result (lines 196-222); impliedVolatility, a
\* copy of contract.greeks.mid_iv, is not part of the model.
Signal(contract, quote, ticker, t) ==
    LET result == scoreContract(contract, quote, t) IN
    [id |-> contract.symbol, ticker |-> toUpperCase(ticker),
     strike |-> contract.strike, volume |-> contract.volume,
     openInterest |-> contract.open_interest,
     expiration |-> contract.expiration_date,
     cost |-> OrElse(contract.last, contract.ask),
     type |-> IF contract.option_type = "call" THEN "Call" ELSE "Put",
     sentiment |-> result.sentiment,
     premium |-> contract.volume * OrElse(contract.last, contract.ask),
     score |-> result.score, details |-> result.details]

\* [s1, s2, ...].flatMap(x => x): the concatenation of a sequence of sequences.
RECURSIVE FlatMap(_, _)
FlatMap(ss, i) ==
    IF i > Len(ss) THEN <<>> ELSE ss[i] \o FlatMap(ss, i + 1)

\* ------------------------------------------------------------ the scan

\* A request of the scan: its path and the ttl it is cached with.
Req(key, ttlMs) == [key |-> key, ttl |-> ttlMs]

\* A run of scanTicker: where it is suspended (p1 at line 172, p2 at line 189,
\* done once it has returned), isDynamic, the responses it has obtained by
\* path, the paths it still awaits, and its result.
ScanRec(phase, dyn, vals, wait, out) ==
    [phase |-> phase, dyn |-> dyn, vals |-> vals, wait |-> wait, out |-> out]

NoVals == [k \in {} |-> Null]

\* ttlMs = null, the default of tradierFetch's second parameter (line 74).
NO_TTL == -1

\* Mutant of tradierFetchBegin: the cache is not consulted.
tradierFetchBegin_NoCache(c, key, ttlMs, t) == [ret |-> Null, cache |-> c]

\* tradierFetch up to its fetch (lines 75-78) at clock t: the cached value it
\* returns, or Null when it goes upstream, and the cache left by the lookup.
tradierFetchBegin(c, key, ttlMs, t) ==
    IF ttlMs # NO_TTL THEN cacheGet(c, key, t) ELSE [ret |-> Null, cache |-> c]

\* Mutant of tradierFetchEnd: the body is stored whatever the outcome and the
\* ttl.
tradierFetchEnd_AlwaysStore(c, key, ttlMs, ok, v, t) ==
    [threw |-> ~ok, ret |-> IF ok THEN v ELSE Null, cache |-> cacheSet(c, key, v, ttlMs, t)]

\* tradierFetch from the response on (lines 80-83) at clock t: whether it
\* throws, the body it returns, and the cache left.
tradierFetchEnd(c, key, ttlMs, ok, v, t) ==
    IF ~ok THEN [threw |-> TRUE, ret |-> Null, cache |-> c]
    ELSE [threw |-> FALSE, ret |-> v,
          cache |-> IF ttlMs # NO_TTL THEN cacheSet(c, key, v, ttlMs, t) ELSE c]

\* The synchronous part of tradierFetch (lines 75-79) for a sequence of
\* requests made one after the other at clock t: the values found in the
\* cache, the requests sent upstream, and the cache left by the lookups.
RECURSIVE tradierFetchStart(_, _, _, _, _)
tradierFetchStart(reqs, i, c, t, acc) ==
    IF i > Len(reqs) THEN [vals |-> acc.vals, miss |-> acc.miss, cache |-> c]
    ELSE LET g == tradierFetchBegin(c, reqs[i].key, reqs[i].ttl, t)
         IN  tradierFetchStart(reqs, i + 1, g.cache, t,
                 IF g.ret # Null
                 THEN [vals |-> [k \in DOMAIN acc.vals \cup {reqs[i].key} |->
                                    IF k = reqs[i].key THEN g.ret ELSE acc.vals[k]],
                       miss |-> acc.miss]
                 ELSE [vals |-> acc.vals, miss |-> acc.miss \cup {reqs[i]}])

\* The outcome of a stretch of scanTicker: the scan, the cache, and the
\* requests sent upstream.
Ran(scan, c, reqs) == [scan |-> scan, cache |-> c, reqs |-> reqs]

Keys(reqs) == {r.key : r \in reqs}

\* Lines 169-175: isDynamic, then the quote and the expirations fetch.
scanTickerBegin(ticker, reg, c, t) ==
    LET f == tradierFetchStart(<< Req(QuoteKey(ticker), QUOTE_TTL),
                                  Req(ExpKey(ticker), EXP_TTL) >>,
                               1, c, t, [vals |-> NoVals, miss |-> {}])
    IN  Ran(ScanRec("p1", MapHas(reg, toUpperCase(ticker)), f.vals, Keys(f.miss), <<>>),
            f.cache, f.miss)

\* Mutant of expsToScan: three expirations whatever the ticker.
expsToScan_Three(scan, ticker) ==
    Slice0(ensureArray(DatesOf(ExpKey(ticker), scan.vals[ExpKey(ticker)])), 3)

\* expirations.slice(0, isDynamic ? 3 : 1) of line 184.
expsToScan(scan, ticker) ==
    Slice0(ensureArray(DatesOf(ExpKey(ticker), scan.vals[ExpKey(ticker)])),
           IF scan.dyn THEN 3 ELSE 1)

\* Lines 177-189, entered when both phase-1 responses are in: the early
\* return, or the chain fetches.
scanTickerChains(scan, ticker, c, t) ==
    LET quote == QuoteOf(QuoteKey(ticker), scan.vals[QuoteKey(ticker)])
        expirations == ensureArray(DatesOf(ExpKey(ticker), scan.vals[ExpKey(ticker)]))
        exps == expsToScan(scan, ticker)
        f == tradierFetchStart([i \in 1..Len(exps) |->
                                   Req(ChainKey(ticker, exps[i]), CHAIN_TTL)],
                               1, c, t, [vals |-> scan.vals, miss |-> {}])
    IN  IF ~quote.present \/ Len(expirations) = 0
        THEN Ran(ScanRec("done", scan.dyn, NoVals, {}, <<>>), c, {})
        ELSE Ran(ScanRec("p2", scan.dyn, f.vals, Keys(f.miss), <<>>), f.cache, f.miss)

\* Mutant of scanTickerFilter: every contract of the chains is returned.
scanTickerFilter_NoThreshold(allContracts, quote, ticker, isDynamic, t) ==
    [i \in 1..Len(allContracts) |-> Signal(allContracts[i], quote, ticker, t)]

\* The map, filter and map of lines 193-222 at clock t.
scanTickerFilter(allContracts, quote, ticker, isDynamic, t) ==
    LET threshold == IF isDynamic THEN 30 ELSE 40
        scored == [i \in 1..Len(allContracts) |-> Signal(allContracts[i], quote, ticker, t)]
        AtLeast(x) == x.score >= threshold
    IN  SelectSeq(scored, AtLeast)

\* Mutant of scanTickerScore: the threshold goes by the registry of the moment
\* the chains are in.
scanTickerScore_LiveRegistry(scan, ticker, t) ==
    LET quote == QuoteOf(QuoteKey(ticker), scan.vals[QuoteKey(ticker)])
        exps == expsToScan(scan, ticker)
        allContracts ==
            FlatMap([i \in 1..Len(exps) |->
                        ensureArray(OptionsOf(ChainKey(ticker, exps[i]),
                                              scan.vals[ChainKey(ticker, exps[i])]))], 1)
    IN  ScanRec("done", scan.dyn, NoVals, {},
                scanTickerFilter(allContracts, quote, ticker,
                                 MapHas(dynamicTickers, toUpperCase(ticker)), t))

\* Lines 190-222, entered when every chain response is in, at clock t.
scanTickerScore(scan, ticker, t) ==
    LET quote == QuoteOf(QuoteKey(ticker), scan.vals[QuoteKey(ticker)])
        exps == expsToScan(scan, ticker)
        allContracts ==
            FlatMap([i \in 1..Len(exps) |->
                        ensureArray(OptionsOf(ChainKey(ticker, exps[i]),
                                              scan.vals[ChainKey(ticker, exps[i])]))], 1)
    IN  ScanRec("done", scan.dyn, NoVals, {},
                scanTickerFilter(allContracts, quote, ticker, scan.dyn, t))

\* scanTicker runs on from where it is until it has to wait or returns.
scanTickerRun(scan, ticker, c, t) ==
    LET r1 == IF scan.phase = "p1" /\ scan.wait = {}
              THEN scanTickerChains(scan, ticker, c, t)
              ELSE Ran(scan, c, {})
    IN  IF r1.scan.phase = "p2" /\ r1.scan.wait = {}
        THEN Ran(scanTickerScore(r1.scan, ticker, t), r1.cache, r1.reqs)
        ELSE r1

\* A response has arrived for an awaited path.
scanTickerGot(scan, key, v) ==
    ScanRec(scan.phase, scan.dyn,
            [k \in DOMAIN scan.vals \cup {key} |-> IF k = key THEN v ELSE scan.vals[k]],
            scan.wait \ {key}, <<>>)

\* The catch of lines 223-226: a fetch has thrown, the scan returns [].
scanTickerCatch(scan) == ScanRec("done", scan.dyn, NoVals, {}, <<>>)

\* ------------------------------------------------------- broadcastFlow

\* A request in flight: the cycle and the scan that sent it, its path, its ttl.
Call(id, i, req) == [cycle |-> id, scan |-> i, key |-> req.key, ttl |-> req.ttl]

\* Mutant of scanAll: the scans run one after the other, only the first that
\* has to wait sending its requests.
RECURSIVE scanAll_Sequential(_, _, _, _, _, _)
scanAll_Sequential(tickers, i, reg, c, t, acc) ==
    IF i > Len(tickers) THEN [scans |-> acc.scans, reqs |-> acc.reqs, cache |-> c]
    ELSE LET b == scanTickerBegin(tickers[i], reg, c, t)
             r == scanTickerRun(b.scan, tickers[i], b.cache, t)
         IN  scanAll_Sequential(tickers, i + 1, reg, r.cache, t,
                     [scans |-> Append(acc.scans, r.scan),
                      reqs |-> IF acc.reqs # {} THEN acc.reqs
                               ELSE {[scan |-> i, req |-> q] : q \in b.reqs \cup r.reqs}])

\* tickers.map(scanTicker) of line 356 at clock t, the continuations that
\* need no response included: the scans, the cache left and the requests sent,
\* each with the index of its scan.  The scans touch disjoint cache keys, so
\* running them one after the other gives what their interleaving gives.
RECURSIVE scanAll(_, _, _, _, _, _)
scanAll(tickers, i, reg, c, t, acc) ==
    IF i > Len(tickers) THEN [scans |-> acc.scans, reqs |-> acc.reqs, cache |-> c]
    ELSE LET b == scanTickerBegin(tickers[i], reg, c, t)
             r == scanTickerRun(b.scan, tickers[i], b.cache, t)
         IN  scanAll(tickers, i + 1, reg, r.cache, t,
                     [scans |-> Append(acc.scans, r.scan),
                      reqs |-> acc.reqs \cup {[scan |-> i, req |-> q] : q \in b.reqs \cup r.reqs}])

\* Promise.allSettled has settled: every scan has returned.
Settled(scans) == \A i \in 1..Len(scans) : scans[i].phase = "done"

\* Array.prototype.sort with (a, b) => b.score - a.score: stable, by
\* descending score.
RECURSIVE SortByScore(_, _, _)
SortByScore(flow, i, acc) ==
    IF i > Len(flow) THEN acc
    ELSE LET n == Cardinality({j \in 1..Len(acc) : acc[j].score >= flow[i].score})
         IN  SortByScore(flow, i + 1,
                 SubSeq(acc, 1, n) \o <<flow[i]>> \o SubSeq(acc, n + 1, Len(acc)))

\* Mutant of Flow: the signals in the order of the tickers, not sorted.
Flow_Unsorted(scans) ==
    FlatMap([i \in 1..Len(scans) |-> scans[i].out], 1)

\* Lines 357-360.
Flow(scans) ==
    SortByScore(FlatMap([i \in 1..Len(scans) |-> scans[i].out], 1), 1, <<>>)

\* Mutant of Deliver: the payload goes to every member of wss.clients, the
\* closing ones included.
Deliver_ToAll(rs, tickers, scans, t) ==
    LET flow == Flow(scans)
        IsClient(c) == rs[c] \in {WS_OPEN, WS_CLOSING}
        receivers == SelectSeq([c \in 1..MaxConns |-> c], IsClient)
    IN  [i \in 1..Len(receivers) |->
            Msg(receivers[i], "flow_update", flow, t, Len(tickers), Len(flow))]

\* Mutant of Deliver: stats.scanning is counted from the registry as it is
\* when the payload is sent.
Deliver_LiveUniverse(rs, tickers, scans, t) ==
    LET flow == Flow(scans)
        IsOpen(c) == rs[c] = WS_OPEN
        receivers == SelectSeq([c \in 1..MaxConns |-> c], IsOpen)
    IN  [i \in 1..Len(receivers) |->
            Msg(receivers[i], "flow_update", flow, t,
                Len(getTickersToScan(dynamicTickers)), Len(flow))]

\* Lines 362-371 at clock t: one flow_update to every client whose readyState
\* is OPEN, in the order of wss.clients.
Deliver(rs, tickers, scans, t) ==
    LET flow == Flow(scans)
        IsOpen(c) == rs[c] = WS_OPEN
        receivers == SelectSeq([c \in 1..MaxConns |-> c], IsOpen)
    IN  [i \in 1..Len(receivers) |->
            Msg(receivers[i], "flow_update", flow, t, Len(tickers), Len(flow))]

\* The lowest slot of ids that is free, 0 if there is none.
FreeSlotIn(ids) ==
    IF \E id \in ids : cycles[id].st = "free"
    THEN CHOOSE id \in ids :
            cycles[id].st = "free" /\ \A j \in ids : j < id => cycles[j].st # "free"
    ELSE 0

\* The lowest cycle slot that is free, 0 if there is none.
FreeSlot == FreeSlotIn(CycleIds)

\* Mutant of payloadTimestamp: the clock is read before the scans.
payloadTimestamp_AtStart(startedAt, t) == startedAt

\* timestamp: Date.now() of line 365, in a cycle called at startedAt that
\* builds its payload at clock t.
payloadTimestamp(startedAt, t) == t

OpenClients(rs) == {c \in Conns : rs[c] = WS_OPEN}

\* A call of broadcastFlow (lines 352-376) by a handler that leaves the
\* sockets rs and the registry reg, up to the point where it is suspended on a
\* response, in slot, or has sent its flow_update.
broadcastFlowOn(rs, reg, slot) ==
    IF ~broadcastFlowStart(rs)
    THEN /\ sent' = <<>>
         /\ issued' = {}
         /\ wrote' = {}
         /\ universe' = <<>>
         /\ finished' = NoFinish
         /\ UNCHANGED <<cache, cycles, calls>>
    ELSE \E tickers \in {getTickersToScan(reg)} :
         \E a \in {scanAll(tickers, 1, reg, cache, now, [scans |-> <<>>, reqs |-> {}])} :
             /\ cache' = a.cache
             /\ issued' = {q.req.key : q \in a.reqs}
             /\ wrote' = {}
             /\ universe' = tickers
             /\ IF Settled(a.scans)
                THEN /\ sent' = Deliver(rs, tickers, a.scans, payloadTimestamp(now, now))
                     /\ finished' = Finish(0, OpenClients(rs), now)
                     /\ UNCHANGED <<cycles, calls>>
                ELSE /\ slot # 0
                     /\ sent' = <<>>
                     /\ finished' = NoFinish
                     /\ cycles' = [cycles EXCEPT ![slot] =
                                      [st |-> "scanning", tickers |-> tickers,
                                       scans |-> a.scans,
                                       clients |-> OpenClients(rs), at |-> now]]
                     /\ calls' = calls \cup {Call(slot, q.scan, q.req) : q \in a.reqs}

\* broadcastFlow with one cycle in flight at most.
broadcastFlow(rs, reg) == broadcastFlowOn(rs, reg, FreeSlot)

\* A step that sends no flow.
FlowQuiet ==
    /\ universe' = <<>>
    /\ finished' = NoFinish
    /\ UNCHANGED stamps

\* A step that runs no scan code: no fetch, no cache access, no clock change.
Quiet ==
    /\ issued' = {}
    /\ wrote' = {}
    /\ FlowQuiet
    /\ UNCHANGED <<now, cache, cacheGhost, cycles, calls, scoreVars, hookVars>>

\* ---------------------------------------------------------------- actions

\* The frames SpecBcast exercises the handlers with.
BcastFrames ==
    { Frame(TRUE, "subscribe", TRUE, "list", <<"GME">>),
      Frame(TRUE, "subscribe", TRUE, "list", <<>>),
      Frame(TRUE, "subscribe", FALSE, "list", <<"GME">>),
      Frame(FALSE, "", FALSE, "missing", NoTickers),
      Frame(TRUE, "ping", FALSE, "missing", NoTickers) }

\* The paths a scan of ticker t requests when the provider answers normally.
ScanKeys(t) ==
    {QuoteKey(t), ExpKey(t)}
    \cup {ChainKey(t, d) : d \in Range(Slice0(ensureArray(DatesOf(ExpKey(t), "A")), 3))}

TtlOf(key) ==
    CASE key.path = "/markets/quotes" -> QUOTE_TTL
      [] key.path = "/markets/options/expirations" -> EXP_TTL
      [] OTHER -> CHAIN_TTL

\* The cache as scans of the given tickers leave it when all their responses
\* arrive at clock 0.
WarmCache(tickers) ==
    [k \in UNION {ScanKeys(t) : t \in tickers} |->
        [value |-> "A", expiresAt |-> 0 + TtlOf(k)]]

\* Every ticker of the default feed and of the given frames.
TickersOf(frames) ==
    Range(FEED_TICKERS)
    \cup UNION {Range(MapUpper(m.tickers)) : m \in {f \in frames : f.shape = "list"}}

\* The tickers whose responses are not in the cache when SpecBcast starts.
ColdTickers == {"SPY"}

\* The state after construction, with the cache as given.
\* The scorer has been given nothing.
NoInput ==
    [contract |-> Contract("", "", "", 0, 0, 0, 0, 0, 0),
     quote |-> [present |-> FALSE, symbol |-> "", last |-> 0],
     ticker |-> "", registry |-> <<>>]

NoOutput == [done |-> FALSE, result |-> NoiseResult, signals |-> <<>>]

\* No connection and an empty registry.
InitRegistry ==
    /\ readyState = [c \in Conns |-> WS_NONE]
    /\ clientSubscriptions = [c \in Conns |-> <<>>]
    /\ isPremium = [c \in Conns |-> FALSE]
    /\ dynamicTickers = <<>>

\* No handler has run, the cache is c0, no run is in flight.
InitRun(c0) ==
    /\ lastEv = NoEvent
    /\ sent = <<>>
    /\ started = NoCycle
    /\ now = 0
    /\ cache = c0
    /\ cacheRet = NoCall
    /\ lastSet = [k \in CacheKeys |-> NeverSet]
    /\ cycles = [i \in Slots |-> FreeCycle]
    /\ calls = {}
    /\ issued = {}
    /\ wrote = {}
    /\ scoreOut = NoOutput
    /\ universe = <<>>
    /\ finished = NoFinish
    /\ stamps = [c \in Conns |-> NoStamp]
    /\ HookNew

\* Everything but the scorer's input.
InitRest(c0) == InitRegistry /\ InitRun(c0)

InitWith(c0) ==
    /\ InitRest(c0)
    /\ scoreIn = NoInput

Init == InitWith(EmptyCache)

\* The server has scanned before: earlier viewers have come and gone, and
\* the responses their cycles fetched are still in the cache.
InitWarm == InitWith(WarmCache(TickersOf(Frames)))

\* As InitWarm, but the responses for ColdTickers have expired and been swept.
InitBcast == InitWith(WarmCache(TickersOf(BcastFrames) \ ColdTickers))

\* wss.on('connection') (lines 378-381, 423): a fresh closure and broadcastFlow().
\* Connections are numbered in the order they arrive.
ConnectHandler(c) ==
    /\ readyState[c] = WS_NONE
    /\ \A d \in Conns : d < c => readyState[d] # WS_NONE
    /\ readyState' = [readyState EXCEPT ![c] = WS_OPEN]
    /\ clientSubscriptions' = [clientSubscriptions EXCEPT ![c] = <<>>]
    /\ isPremium' = [isPremium EXCEPT ![c] = FALSE]
    /\ UNCHANGED dynamicTickers
    /\ started' = broadcastFlowStart(readyState')
    /\ lastEv' = Event("connect", c, <<>>)

\* ws.on('message'): JSON.parse, msg.tickers.map or t.toUpperCase throws; the
\* catch (lines 418-420) logs and nothing else. isPremium = true (line 393) has
\* run when the throw comes from line 394.
MessageThrows(c, m) ==
    /\ readyState[c] = WS_OPEN
    /\ \/ ~m.parses
       \/ m.parses /\ m.type = "subscribe" /\ m.premium /\ m.shape # "list"
    /\ isPremium' = [isPremium EXCEPT ![c] = IF m.parses THEN TRUE ELSE @]
    /\ UNCHANGED <<readyState, clientSubscriptions, dynamicTickers>>
    /\ sent' = <<>>
    /\ started' = NoCycle
    /\ lastEv' = Event("invalid", c, <<>>)
    /\ Quiet

\* ws.on('message') with msg.type other than 'subscribe' (line 386): no branch.
MessageIgnored(c, m) ==
    /\ readyState[c] = WS_OPEN
    /\ m.parses /\ m.type # "subscribe"
    /\ UNCHANGED <<readyState, clientSubscriptions, isPremium, dynamicTickers>>
    /\ sent' = <<>>
    /\ started' = NoCycle
    /\ lastEv' = Event("ignored", c, <<>>)
    /\ Quiet

\* Mutant of SubscribeDenied: the return after the error reply is missing, so
\* the handler falls through into the subscription update.
SubscribeDenied_NoReturn(c, m) ==
    /\ readyState[c] = WS_OPEN
    /\ m.parses /\ m.type = "subscribe" /\ ~m.premium /\ m.shape = "list"
    /\ LET upd == SubscribeUpdate(dynamicTickers, clientSubscriptions[c], m.tickers)
       IN  /\ dynamicTickers' = upd.reg
           /\ clientSubscriptions' = [clientSubscriptions EXCEPT ![c] = upd.subs]
    /\ isPremium' = [isPremium EXCEPT ![c] = TRUE]
    /\ UNCHANGED readyState
    /\ sent' = <<ErrorMsg(c)>>
    /\ started' = broadcastFlowStart(readyState)
    /\ lastEv' = Event("denied", c, <<>>)
    /\ Quiet

\* ws.on('message'), subscribe without msg.isPremium (lines 388-391).
SubscribeDenied(c, m) ==
    /\ readyState[c] = WS_OPEN
    /\ m.parses /\ m.type = "subscribe" /\ ~m.premium
    /\ UNCHANGED <<readyState, clientSubscriptions, isPremium, dynamicTickers>>
    /\ sent' = <<ErrorMsg(c)>>
    /\ started' = NoCycle
    /\ lastEv' = Event("denied", c, <<>>)
    /\ Quiet

\* ws.on('message'), subscribe with msg.isPremium (lines 393-416).
SubscribeHandler(c, m) ==
    /\ readyState[c] = WS_OPEN
    /\ m.parses /\ m.type = "subscribe" /\ m.premium /\ m.shape = "list"
    /\ LET upd == SubscribeUpdate(dynamicTickers, clientSubscriptions[c], m.tickers)
       IN  /\ dynamicTickers' = upd.reg
           /\ clientSubscriptions' = [clientSubscriptions EXCEPT ![c] = upd.subs]
    /\ isPremium' = [isPremium EXCEPT ![c] = TRUE]
    /\ UNCHANGED readyState
    /\ started' = broadcastFlowStart(readyState)
    /\ lastEv' = Event("subscribe", c, m.tickers)

\* ws.on('error') (line 435): logs; the ws library has set readyState CLOSING.
OnError(c) ==
    /\ readyState[c] = WS_OPEN
    /\ readyState' = [readyState EXCEPT ![c] = WS_CLOSING]
    /\ UNCHANGED <<clientSubscriptions, isPremium, dynamicTickers>>
    /\ sent' = <<>>
    /\ started' = NoCycle
    /\ lastEv' = Event("error", c, <<>>)
    /\ Quiet

\* ws.on('close') (lines 425-433): the socket has left wss.clients.
OnClose(c) ==
    /\ readyState[c] \in {WS_OPEN, WS_CLOSING}
    /\ readyState' = [readyState EXCEPT ![c] = WS_CLOSED]
    /\ dynamicTickers' = CloseCleanup(dynamicTickers, clientSubscriptions[c], 1)
    /\ UNCHANGED <<clientSubscriptions, isPremium>>
    /\ sent' = <<>>
    /\ started' = NoCycle
    /\ lastEv' = Event("close", c, <<>>)
    /\ Quiet

\* setInterval(broadcastFlow, 30_000) (line 438).
TimerHandler ==
    /\ UNCHANGED <<readyState, clientSubscriptions, isPremium, dynamicTickers>>
    /\ started' = broadcastFlowStart(readyState)
    /\ lastEv' = Event("timer", 0, <<>>)

\* The handlers that end by calling broadcastFlow, the call included.
Connect(c) ==
    /\ ConnectHandler(c)
    /\ broadcastFlow(readyState', dynamicTickers')
    /\ UNCHANGED <<now, cacheGhost, scoreVars, hookVars, stamps>>

\* Mutant of SubscribeAccepted: the cycle reads the registry as it was before
\* the update.
SubscribeAccepted_StaleRegistry(c, m) ==
    /\ SubscribeHandler(c, m)
    /\ broadcastFlow(readyState', dynamicTickers)
    /\ UNCHANGED <<now, cacheGhost, scoreVars, hookVars, stamps>>

SubscribeAccepted(c, m) ==
    /\ SubscribeHandler(c, m)
    /\ broadcastFlow(readyState', dynamicTickers')
    /\ UNCHANGED <<now, cacheGhost, scoreVars, hookVars, stamps>>

TimerTick ==
    /\ TimerHandler
    /\ broadcastFlow(readyState', dynamicTickers')
    /\ UNCHANGED <<now, cacheGhost, scoreVars, hookVars, stamps>>

\* The run is suspended on its scans: a broadcast cycle (st "scanning") or a
\* request of GET /api/flow (st "serving").
Running(cy) == cy.st \in {"scanning", "serving"}

\* res.json(flow) of line 336.
HttpReply(flow) == Msg(0, "http_flow", flow, 0, 0, Len(flow))

\* Mutant of cycleGot: a fetch that throws ends every scan of the cycle with [].
cycleGot_AbortAll(cy, call, ok, v, c, t) ==
    IF ~Running(cy) \/ cy.scans[call.scan].phase = "done"
    THEN [scans |-> cy.scans, cache |-> c, reqs |-> {}]
    ELSE IF ok
    THEN LET r == scanTickerRun(scanTickerGot(cy.scans[call.scan], call.key, v),
                                cy.tickers[call.scan], c, t)
         IN  [scans |-> [cy.scans EXCEPT ![call.scan] = r.scan],
              cache |-> r.cache, reqs |-> r.reqs]
    ELSE [scans |-> [i \in 1..Len(cy.scans) |-> scanTickerCatch(cy.scans[i])],
          cache |-> c, reqs |-> {}]

\* What a response does to the cycle that awaits it, at clock t with cache c:
\* the scan stores it and runs on, or, if the fetch has thrown, returns [].
\* A scan that has returned, or a cycle that has sent its flow_update, takes
\* no notice.
cycleGot(cy, call, ok, v, c, t) ==
    IF ~Running(cy) \/ cy.scans[call.scan].phase = "done"
    THEN [scans |-> cy.scans, cache |-> c, reqs |-> {}]
    ELSE LET sc == cy.scans[call.scan]
             r == IF ok
                  THEN scanTickerRun(scanTickerGot(sc, call.key, v),
                                     cy.tickers[call.scan], c, t)
                  ELSE Ran(scanTickerCatch(sc), c, {})
         IN  [scans |-> [cy.scans EXCEPT ![call.scan] = r.scan],
              cache |-> r.cache, reqs |-> r.reqs]

\* The provider answers a request in flight (lines 79-83): not ok, and the
\* fetch throws; ok with body v, and the body is cached and returned.  The
\* scan runs on, and when it was the last one the cycle sends (lines 357-371)
\* or the route replies (lines 332-336).
RespondRun(call, ok, v) ==
    /\ call \in calls
    /\ v \in Variants(call.key)
    /\ ~ok => v = "A"
    /\ \E g \in {cycleGot(cycles[call.cycle], call, ok, v,
                          tradierFetchEnd(cache, call.key, call.ttl, ok, v, now).cache,
                          now)} :
       LET id == call.cycle
           cy == cycles[id]
           calls1 == (calls \ {call}) \cup {Call(id, call.scan, q) : q \in g.reqs}
           finishes == Running(cy) /\ Settled(g.scans)
           pending == \E k \in calls1 : k.cycle = id
       IN  /\ cache' = g.cache
           /\ calls' = calls1
           /\ issued' = Keys(g.reqs)
           /\ wrote' = IF ok THEN {call.key} ELSE {}
           /\ sent' = IF ~finishes THEN <<>>
                      ELSE IF cy.st = "serving" THEN <<HttpReply(Flow(g.scans))>>
                      ELSE Deliver(readyState, cy.tickers, g.scans,
                                   payloadTimestamp(cy.at, now))
           /\ finished' = IF finishes THEN Finish(id, cy.clients, cy.at) ELSE NoFinish
           /\ cycles' = [cycles EXCEPT ![id] =
                            IF finishes \/ cy.st = "draining"
                            THEN IF pending
                                 THEN [FreeCycle EXCEPT !.st = "draining"]
                                 ELSE FreeCycle
                            ELSE [cy EXCEPT !.scans = g.scans]]
    /\ started' = NoCycle
    /\ universe' = <<>>
    /\ lastEv' = Event("response", 0, <<>>)
    /\ UNCHANGED <<readyState, clientSubscriptions, isPremium, dynamicTickers,
                   now, cacheGhost, scoreVars, hookVars>>

\* A response, in the specifications that keep no record of the timestamps.
Respond(call, ok, v) == RespondRun(call, ok, v) /\ UNCHANGED stamps

Next ==
    \/ \E c \in Conns : Connect(c)
    \/ \E c \in Conns, m \in Frames : MessageThrows(c, m)
    \/ \E c \in Conns, m \in Frames : MessageIgnored(c, m)
    \/ \E c \in Conns, m \in Frames : SubscribeDenied(c, m)
    \/ \E c \in Conns, m \in Frames : SubscribeAccepted(c, m)
    \/ \E c \in Conns : OnError(c)
    \/ \E c \in Conns : OnClose(c)
    \/ TimerTick

\* The connections and the registry, with every response already cached.
Spec == InitWarm /\ [][Next]_vars

\* -------------------------------------------------------- cache actions

\* A caller runs cacheSet(key, value, ttlMs) (tradierFetch, line 82).
CacheSet(key, value, ttlMs) ==
    /\ cache' = cacheSet(cache, key, value, ttlMs, now)
    /\ cacheRet' = [op |-> "set", key |-> key, ret |-> Null, at |-> now, status |-> 0]
    /\ lastSet' = [lastSet EXCEPT ![key] =
                      [set |-> TRUE, value |-> value, at |-> now,
                       ttl |-> ttlMs, swept |-> FALSE, read |-> FALSE]]
    /\ FlowQuiet
    /\ UNCHANGED <<now, regVars, sent, scanVars, scoreVars, hookVars>>

\* A caller runs cacheGet(key) (tradierFetch, line 76).
CacheGet(key) ==
    /\ LET got == cacheGet(cache, key, now)
       IN  /\ cache' = got.cache
           /\ cacheRet' = [op |-> "get", key |-> key, ret |-> got.ret, at |-> now,
                            status |-> 0]
    /\ lastSet' = [lastSet EXCEPT ![key].read = TRUE]
    /\ FlowQuiet
    /\ UNCHANGED <<now, regVars, sent, scanVars, scoreVars, hookVars>>

\* The setInterval callback of lines 60-65 fires.
CacheSweep ==
    /\ cache' = cacheSweep(cache, now)
    /\ cacheRet' = [op |-> "sweep", key |-> NoKey, ret |-> Null, at |-> now, status |-> 0]
    /\ lastSet' = [k \in CacheKeys |-> [lastSet[k] EXCEPT !.swept = TRUE]]
    /\ sent' = <<>>
    /\ started' = NoCycle
    /\ lastEv' = Event("sweep", 0, <<>>)
    /\ issued' = {}
    /\ wrote' = {}
    /\ UNCHANGED <<now, readyState, clientSubscriptions, isPremium, dynamicTickers,
                   cycles, calls, scoreVars, hookVars>>
    /\ FlowQuiet

\* Time passes, up to a horizon.
Advance(horizon) ==
    /\ now + ClockStep <= horizon
    /\ now' = now + ClockStep
    /\ sent' = <<>>
    /\ started' = NoCycle
    /\ lastEv' = Event("clock", 0, <<>>)
    /\ issued' = {}
    /\ wrote' = {}
    /\ UNCHANGED <<cache, cacheRet, lastSet, readyState, clientSubscriptions,
                   isPremium, dynamicTickers, cycles, calls, scoreVars, hookVars>>
    /\ FlowQuiet

NextCache ==
    \/ \E k \in CacheKeys, v \in Payloads, ttl \in CacheTtls : CacheSet(k, v, ttl)
    \/ \E k \in CacheKeys : CacheGet(k)
    \/ CacheSweep
    \/ Advance(MaxClock)

SpecCache == Init /\ [][NextCache]_vars

\* cacheSet early enough for the entry to run out before the clock's horizon.
CacheSetEarly(key, value, ttlMs) ==
    /\ now + ttlMs + ClockStep <= MaxClock
    /\ CacheSet(key, value, ttlMs)

NextSweep ==
    \/ \E k \in CacheKeys, v \in Payloads, ttl \in CacheTtls : CacheSetEarly(k, v, ttl)
    \/ \E k \in CacheKeys : CacheGet(k)
    \/ CacheSweep
    \/ Advance(MaxClock)

\* The cache with the sweep's setInterval firing again and again (lines
\* 60-65) and time passing.
SpecSweep ==
    /\ Init
    /\ [][NextSweep]_vars
    /\ WF_vars(CacheSweep)
    /\ WF_vars(Advance(MaxClock))

\* ------------------------------------------------------- tradierFetch

\* At most MaxCalls requests of SpecFetch are in flight at a time.
MaxCalls == 1

\* The clock of SpecFetch runs up to FetchClock ms, past the ttl of a quote.
FetchClock == 15000

\* The ttlMs a fetch is made with, the decoded bodies a response may carry
\* (JSON null among them) and the statuses it may have.
FetchTtls == {QUOTE_TTL, NO_TTL}

FetchBodies == Payloads \cup {Null}

Statuses == {200, 404, 500}

\* Response.ok of the fetch API (line 80): a status in 200..299.
ResOk(status) == status >= 200 /\ status <= 299

\* The lowest call number that is free, 0 if there is none.
FreeCall ==
    IF \E n \in 1..MaxCalls : \A k \in calls : k.scan # n
    THEN CHOOSE n \in 1..MaxCalls :
            /\ \A k \in calls : k.scan # n
            /\ \A m \in 1..MaxCalls : m < n => \E k \in calls : k.scan = m
    ELSE 0

\* A caller runs tradierFetch(key, ttlMs) up to its first await: it returns
\* the cached value, or sends the request upstream (lines 75-79).
Fetch(key, ttlMs) ==
    /\ \E b \in {tradierFetchBegin(cache, key, ttlMs, now)} :
          /\ cache' = b.cache
          /\ IF b.ret # Null
             THEN /\ calls' = calls
                  /\ issued' = {}
                  /\ cacheRet' = [op |-> "hit", key |-> key, ret |-> b.ret,
                                   at |-> now, status |-> 0]
             ELSE /\ FreeCall # 0
                  /\ calls' = calls \cup {Call(0, FreeCall, Req(key, ttlMs))}
                  /\ issued' = {key}
                  /\ cacheRet' = [op |-> "miss", key |-> key, ret |-> Null,
                                   at |-> now, status |-> 0]
    /\ lastSet' = IF ttlMs # NO_TTL THEN [lastSet EXCEPT ![key].read = TRUE] ELSE lastSet
    /\ wrote' = {}
    /\ sent' = <<>>
    /\ started' = NoCycle
    /\ lastEv' = Event("fetch", 0, <<>>)
    /\ UNCHANGED <<now, readyState, clientSubscriptions, isPremium, dynamicTickers,
                   cycles, scoreVars, hookVars>>
    /\ FlowQuiet

\* The response to a request in flight arrives and tradierFetch runs to its
\* end (lines 80-83): it throws with the status and the path, or stores the
\* body if a ttl was given and returns it.
FetchReturn(call, status, v) ==
    /\ call \in calls
    /\ \E e \in {tradierFetchEnd(cache, call.key, call.ttl, ResOk(status), v, now)} :
          /\ cache' = e.cache
          /\ cacheRet' = [op |-> IF e.threw THEN "error" ELSE "ok", key |-> call.key,
                           ret |-> e.ret, at |-> now, status |-> status]
          /\ wrote' = IF cache' # cache THEN {call.key} ELSE {}
          /\ lastSet' = IF ~e.threw /\ call.ttl # NO_TTL
                        THEN [lastSet EXCEPT ![call.key] =
                                 [set |-> TRUE, value |-> v, at |-> now,
                                  ttl |-> call.ttl, swept |-> FALSE, read |-> FALSE]]
                        ELSE lastSet
    /\ calls' = calls \ {call}
    /\ issued' = {}
    /\ sent' = <<>>
    /\ started' = NoCycle
    /\ lastEv' = Event("response", 0, <<>>)
    /\ UNCHANGED <<now, readyState, clientSubscriptions, isPremium, dynamicTickers,
                   cycles, scoreVars, hookVars>>
    /\ FlowQuiet

NextFetch ==
    \/ \E k \in CacheKeys, ttl \in FetchTtls : Fetch(k, ttl)
    \/ \E call \in calls, status \in Statuses, v \in FetchBodies :
          FetchReturn(call, status, v)
    \/ CacheSweep
    \/ Advance(FetchClock)

\* tradierFetch called on its own (as the REST routes do), with the cache, the
\* sweep and the clock.
SpecFetch == Init /\ [][NextFetch]_vars

\* ------------------------------------------------- GET /api/quote/:ticker

\* A client asks for the quotes of MaxWalk symbols, one after the other.
MaxWalk == 101

RestWalk == [i \in 1..MaxWalk |-> "R" \o ToString(i)]

\* res.json of the route (line 237 on), res.status(404) and res.status(500).
QuoteReply(status) == Msg(0, "http_quote", <<>>, 0, status, 0)

\* GET /api/quote/:ticker (lines 232-235) up to its await: the quote is in
\* the cache and the route replies, or the request goes upstream.
QuoteRoute(ticker) ==
    /\ \E b \in {tradierFetchBegin(cache, QuoteKey(toUpperCase(ticker)), QUOTE_TTL, now)} :
          /\ cache' = b.cache
          /\ IF b.ret # Null
             THEN /\ calls' = calls
                  /\ issued' = {}
                  /\ sent' = <<QuoteReply(200)>>
             ELSE /\ FreeCall # 0
                  /\ calls' = calls \cup {Call(0, FreeCall,
                                               Req(QuoteKey(toUpperCase(ticker)), QUOTE_TTL))}
                  /\ issued' = {QuoteKey(toUpperCase(ticker))}
                  /\ sent' = <<>>
    /\ wrote' = {}
    /\ started' = NoCycle
    /\ lastEv' = Event("api_quote", 0, <<ticker>>)
    /\ UNCHANGED <<now, readyState, clientSubscriptions, isPremium, dynamicTickers,
                   cycles, cacheGhost, scoreVars, hookVars>>
    /\ FlowQuiet

\* The response arrives and the route runs to its end (tradierFetch lines
\* 80-83, the route lines 236-254): the quote is stored and sent, or the
\* error is turned into a 500.
QuoteRouteReturn(call, ok) ==
    /\ call \in calls
    /\ \E e \in {tradierFetchEnd(cache, call.key, call.ttl, ok, "A", now)} :
          /\ cache' = e.cache
          /\ wrote' = IF e.threw THEN {} ELSE {call.key}
          /\ sent' = <<QuoteReply(IF e.threw THEN 500 ELSE 200)>>
    /\ calls' = calls \ {call}
    /\ issued' = {}
    /\ started' = NoCycle
    /\ lastEv' = Event("response", 0, <<>>)
    /\ UNCHANGED <<now, readyState, clientSubscriptions, isPremium, dynamicTickers,
                   cycles, cacheGhost, scoreVars, hookVars>>
    /\ FlowQuiet

\* The client asks again for a symbol it has asked for, or goes on to the
\* next symbol of its list.
NextRest ==
    \/ \E i \in 1..MaxWalk :
          /\ i <= Cardinality(DOMAIN cache) + 1
          /\ QuoteRoute(RestWalk[i])
    \/ \E call \in calls, ok \in BOOLEAN : QuoteRouteReturn(call, ok)

\* Requests of GET /api/quote/:ticker for one symbol after the other, all
\* within the ttl of a quote; no viewer is connected.
SpecRest == Init /\ [][NextRest]_vars

\* ---------------------------------------------------- broadcast cycles

NextBcast ==
    \/ \E c \in Conns : Connect(c)
    \/ \E c \in Conns, m \in BcastFrames : MessageThrows(c, m)
    \/ \E c \in Conns, m \in BcastFrames : MessageIgnored(c, m)
    \/ \E c \in Conns, m \in BcastFrames : SubscribeDenied(c, m)
    \/ \E c \in Conns, m \in BcastFrames : SubscribeAccepted(c, m)
    \/ \E c \in Conns : OnError(c)
    \/ \E c \in Conns : OnClose(c)
    \/ TimerTick
    \/ \E call \in calls, ok \in BOOLEAN, v \in {"A", "B"} : Respond(call, ok, v)
    \/ Advance(BcastClock)

\* The broadcast cycles: scans, requests in flight, responses and the clock.
\* No ttl runs out before BcastClock, so expiry and the sweep are left to
\* SpecCache.
SpecBcast == InitBcast /\ [][NextBcast]_vars

\* ------------------------------------------------- overlapping cycles

\* The record of the timestamps after the messages msgs have been sent.
Stamped(st, msgs) ==
    [c \in Conns |->
        IF \E n \in 1..Len(msgs) : msgs[n].to = c /\ msgs[n].type = "flow_update"
        THEN LET n == CHOOSE n \in 1..Len(msgs) :
                          msgs[n].to = c /\ msgs[n].type = "flow_update"
             IN  msgs[n].timestamp
        ELSE st[c]]

\* Mutant of ConnectStamped: the handler leaves the broadcast to the timer.
ConnectStamped_NoBroadcast(c) ==
    /\ ConnectHandler(c)
    /\ sent' = <<>>
    /\ Quiet
    /\ UNCHANGED <<now, cache, cacheGhost, cycles, calls, scoreVars, hookVars>>

\* The handlers that call broadcastFlow, a second cycle being free to start
\* while the first waits, and each flow_update recorded.
ConnectStamped(c) ==
    /\ ConnectHandler(c)
    /\ broadcastFlowOn(readyState', dynamicTickers', FreeSlotIn(Slots))
    /\ stamps' = Stamped(stamps, sent')
    /\ UNCHANGED <<now, cacheGhost, scoreVars, hookVars>>

SubscribeStamped(c, m) ==
    /\ SubscribeHandler(c, m)
    /\ broadcastFlowOn(readyState', dynamicTickers', FreeSlotIn(Slots))
    /\ stamps' = Stamped(stamps, sent')
    /\ UNCHANGED <<now, cacheGhost, scoreVars, hookVars>>

TimerTickStamped ==
    /\ TimerHandler
    /\ broadcastFlowOn(readyState', dynamicTickers', FreeSlotIn(Slots))
    /\ stamps' = Stamped(stamps, sent')
    /\ UNCHANGED <<now, cacheGhost, scoreVars, hookVars>>

RespondStamped(call, ok, v) ==
    /\ RespondRun(call, ok, v)
    /\ stamps' = Stamped(stamps, sent')

\* The subscribe of SpecOverlap.
OverlapFrames == {Frame(TRUE, "subscribe", TRUE, "list", <<"GME">>)}

NextOverlap ==
    \/ \E c \in Conns : ConnectStamped(c)
    \/ \E c \in Conns, m \in OverlapFrames : SubscribeStamped(c, m)
    \/ TimerTickStamped
    \/ \E call \in calls, ok \in BOOLEAN : RespondStamped(call, ok, "A")
    \/ Advance(BcastClock)

\* Broadcast cycles that overlap: up to MaxOverlap wait for the responses of
\* SPY at a time, and finish in any order.
SpecOverlap == InitBcast /\ [][NextOverlap]_vars

\* ------------------------------------------------- a channel opens

NextOpen ==
    \/ \E c \in Conns : ConnectStamped(c)
    \/ \E c \in Conns : OnClose(c)
    \/ TimerTickStamped
    \/ \E call \in calls, ok \in BOOLEAN : RespondStamped(call, ok, "A")

\* Every request of the cycle in slot id that waits is answered in the end:
\* the response arrives, or the request fails.
Settles(id) ==
    WF_vars(\E call \in calls, ok \in BOOLEAN :
               call.cycle = id /\ RespondStamped(call, ok, "A"))

\* Channels open and close and the timer ticks while cycles wait for the
\* responses of SPY; every request settles.
SpecOpen == InitBcast /\ [][NextOpen]_vars /\ \A id \in Slots : Settles(id)

\* ------------------------------------------------- the timer goes on

\* The frames of SpecTimer: a subscribe without isPremium, a frame that is
\* not JSON, and a subscribe whose tickers are missing.
TimerFrames ==
    { Frame(TRUE, "subscribe", FALSE, "list", <<"GME">>),
      Frame(FALSE, "", FALSE, "missing", NoTickers),
      Frame(TRUE, "subscribe", TRUE, "missing", NoTickers) }

NextTimer ==
    \/ \E c \in Conns : ConnectStamped(c)
    \/ \E c \in Conns, m \in TimerFrames : MessageThrows(c, m)
    \/ \E c \in Conns, m \in TimerFrames : SubscribeDenied(c, m)
    \/ \E c \in Conns : OnClose(c)
    \/ TimerTickStamped
    \/ \E call \in calls, ok \in BOOLEAN : RespondStamped(call, ok, "A")

\* The timer among the failures: requests that fail, subscribes that are
\* denied or throw, channels that close while a cycle waits.
SpecTimer == InitBcast /\ [][NextTimer]_vars

\* ------------------------------------------------------- GET /api/flow

\* The tickers of the requests: an ETF of the default set with two
\* expirations, a ticker outside it with four, and one without options.
ScanTickers == {"SPY", "GME", "VXX"}

\* The tickers the one viewer follows when the requests come.
Followed == {<<>>, <<"GME">>, <<"SPY">>}

\* A viewer has connected and subscribed to subs, and no response is cached.
InitScan ==
    /\ InitRun(EmptyCache)
    /\ scoreIn = NoInput
    /\ \E subs \in Followed :
          /\ readyState = [c \in Conns |-> IF c = 1 /\ subs # <<>> THEN WS_OPEN ELSE WS_NONE]
          /\ clientSubscriptions = [c \in Conns |-> IF c = 1 THEN subs ELSE <<>>]
          /\ isPremium = [c \in Conns |-> c = 1 /\ subs # <<>>]
          /\ dynamicTickers = [i \in 1..Len(subs) |-> [k |-> subs[i], n |-> 1]]

\* Mutant of flowTickers: the route scans the default list whatever is given.
flowTickers_AlwaysDefault(given) == FEED_TICKERS

\* Line 328: req.query.tickers ? req.query.tickers.split(',') : FEED_TICKERS,
\* given being the list split from the parameter, empty when the parameter is
\* missing or the empty string.
flowTickers(given) == IF given = <<>> THEN FEED_TICKERS ELSE given

\* GET /api/flow?tickers=... (lines 328-343) up to the point where it is
\* suspended on a response or has replied.
ApiFlow(given) ==
    /\ FreeSlot # 0
    /\ \E tickers \in {flowTickers(given)} :
       \E a \in {scanAll(tickers, 1, dynamicTickers, cache, now,
                          [scans |-> <<>>, reqs |-> {}])} :
          /\ cache' = a.cache
          /\ issued' = {q.req.key : q \in a.reqs}
          /\ wrote' = {}
          /\ IF Settled(a.scans)
             THEN /\ sent' = <<HttpReply(Flow(a.scans))>>
                  /\ finished' = Finish(0, {}, now)
                  /\ UNCHANGED <<cycles, calls>>
             ELSE /\ sent' = <<>>
                  /\ finished' = NoFinish
                  /\ cycles' = [cycles EXCEPT ![FreeSlot] =
                                   [st |-> "serving", tickers |-> tickers,
                                    scans |-> a.scans, clients |-> {}, at |-> now]]
                  /\ calls' = calls \cup {Call(FreeSlot, q.scan, q.req) : q \in a.reqs}
    /\ started' = NoCycle
    /\ lastEv' = Event("api_flow", 0, given)
    /\ universe' = <<>>
    /\ UNCHANGED <<readyState, clientSubscriptions, isPremium, dynamicTickers,
                   now, cacheGhost, scoreVars, hookVars, stamps>>

NextScan ==
    \/ \E t \in ScanTickers : ApiFlow(<<t>>)
    \/ \E call \in calls, ok \in BOOLEAN, v \in {"A", "B"} : Respond(call, ok, v)
    \/ Advance(BcastClock)

\* Requests of GET /api/flow for one ticker, the responses and the clock,
\* while the viewer's subscription stands.
SpecScan == InitScan /\ [][NextScan]_vars

\* ------------------------------------------------- the order of the flow

\* The ?tickers= lists of SpecOrder.
OrderLists == {<<"GME", "SPY">>, <<"SPY", "GME">>}

\* A viewer has connected and follows GME; the responses for SPY and GME have
\* expired and been swept, those of the other default tickers are cached.
InitOrder ==
    /\ InitRun(WarmCache(Range(FEED_TICKERS) \ {"SPY"}))
    /\ scoreIn = NoInput
    /\ readyState = [c \in Conns |-> IF c = 1 THEN WS_OPEN ELSE WS_NONE]
    /\ clientSubscriptions = [c \in Conns |-> IF c = 1 THEN <<"GME">> ELSE <<>>]
    /\ isPremium = [c \in Conns |-> c = 1]
    /\ dynamicTickers = <<[k |-> "GME", n |-> 1]>>

NextOrder ==
    \/ TimerTick
    \/ \E given \in OrderLists \cup {<<>>} : ApiFlow(given)
    \/ \E call \in calls, ok \in BOOLEAN : Respond(call, ok, "A")

\* Broadcast cycles and requests of GET /api/flow over two tickers whose
\* responses arrive in any order.
SpecOrder == InitOrder /\ [][NextOrder]_vars

\* --------------------------------------- one key, two times to live

\* The ttl of GET /api/options/chain/:ticker/:expiration (line 303).
CHAIN_ROUTE_TTL == 15000

\* The clock of SpecFresh goes by FreshStep ms up to FreshClock ms, past the
\* ttl of a chain.
FreshStep == 2500

FreshClock == 25000

\* The chain both the scan of TSLA and the chain route ask for.
FreshKey == ChainKey("TSLA", "2026-11-06")

InitFresh ==
    /\ InitRegistry
    /\ scoreIn = NoInput
    /\ lastEv = NoEvent
    /\ sent = <<>>
    /\ started = NoCycle
    /\ now = 0
    /\ cache = EmptyCache
    /\ cacheRet = NoCall
    /\ lastSet = [k \in {FreshKey} |-> NeverSet]
    /\ cycles = [i \in Slots |-> FreeCycle]
    /\ calls = {}
    /\ issued = {}
    /\ wrote = {}
    /\ scoreOut = NoOutput
    /\ universe = <<>>
    /\ finished = NoFinish
    /\ stamps = [c \in Conns |-> NoStamp]
    /\ HookNew

\* The reply of the chain route: the contracts (line 305), or the 500 of its
\* catch.
ChainReply(status, v) == [to |-> 0, type |-> "chain", status |-> status, body |-> v]

\* GET /api/options/chain/:ticker/:expiration up to its await (lines 300-304):
\* tradierFetch with a ttl of 15 s returns the cached chain, which the route
\* sends, or goes upstream.
ChainRoute(ticker, expiration) ==
    /\ \E key \in {ChainKey(toUpperCase(ticker), expiration)} :
       \E b \in {tradierFetchBegin(cache, key, CHAIN_ROUTE_TTL, now)} :
          /\ cache' = b.cache
          /\ lastSet' = [lastSet EXCEPT ![key].read = TRUE]
          /\ IF b.ret # Null
             THEN /\ calls' = calls
                  /\ issued' = {}
                  /\ sent' = <<ChainReply(200, b.ret)>>
                  /\ cacheRet' = [op |-> "hit", key |-> key, ret |-> b.ret,
                                   at |-> now, status |-> 0]
             ELSE /\ FreeCall # 0
                  /\ calls' = calls \cup {Call(0, FreeCall, Req(key, CHAIN_ROUTE_TTL))}
                  /\ issued' = {key}
                  /\ sent' = <<>>
                  /\ cacheRet' = [op |-> "miss", key |-> key, ret |-> Null,
                                   at |-> now, status |-> 0]
    /\ wrote' = {}
    /\ started' = NoCycle
    /\ lastEv' = Event("api_chain", 0, <<ticker>>)
    /\ UNCHANGED <<now, readyState, clientSubscriptions, isPremium, dynamicTickers,
                   cycles, scoreVars, hookVars>>
    /\ FlowQuiet

\* The response to the route's request arrives (tradierFetch lines 80-83, the
\* route lines 305-308): the chain is stored for 15 s and sent, or the error
\* is turned into a 500.
ChainRouteReturn(call, status, v) ==
    /\ call \in calls
    /\ call.ttl = CHAIN_ROUTE_TTL
    /\ \E e \in {tradierFetchEnd(cache, call.key, call.ttl, ResOk(status), v, now)} :
          /\ cache' = e.cache
          /\ cacheRet' = [op |-> IF e.threw THEN "error" ELSE "ok", key |-> call.key,
                           ret |-> e.ret, at |-> now, status |-> status]
          /\ wrote' = IF cache' # cache THEN {call.key} ELSE {}
          /\ sent' = <<ChainReply(IF e.threw THEN 500 ELSE 200, e.ret)>>
          /\ lastSet' = IF ~e.threw
                        THEN [lastSet EXCEPT ![call.key] =
                                 [set |-> TRUE, value |-> v, at |-> now,
                                  ttl |-> call.ttl, swept |-> FALSE, read |-> FALSE]]
                        ELSE lastSet
    /\ calls' = calls \ {call}
    /\ issued' = {}
    /\ started' = NoCycle
    /\ lastEv' = Event("response", 0, <<>>)
    /\ UNCHANGED <<now, readyState, clientSubscriptions, isPremium, dynamicTickers,
                   cycles, scoreVars, hookVars>>
    /\ FlowQuiet

\* Date.now() moves on by FreshStep ms.
AdvanceFresh ==
    /\ now + FreshStep <= FreshClock
    /\ now' = now + FreshStep
    /\ sent' = <<>>
    /\ started' = NoCycle
    /\ lastEv' = Event("clock", 0, <<>>)
    /\ issued' = {}
    /\ wrote' = {}
    /\ UNCHANGED <<cache, cacheRet, lastSet, readyState, clientSubscriptions,
                   isPremium, dynamicTickers, cycles, calls, scoreVars, hookVars>>
    /\ FlowQuiet

NextFresh ==
    \/ Fetch(FreshKey, CHAIN_TTL)
    \/ \E call \in calls, status \in Statuses :
          call.ttl = CHAIN_TTL /\ FetchReturn(call, status, "A")
    \/ ChainRoute("tsla", "2026-11-06")
    \/ \E call \in calls, status \in Statuses : ChainRouteReturn(call, status, "A")
    \/ AdvanceFresh

\* The chain fetch of scanTicker (20 s, line 186) and the chain route (15 s)
\* on one key, with the clock.
SpecFresh == InitFresh /\ [][NextFresh]_vars

\* ------------------------------------- the registry changes under a cycle

\* The subscribes of SpecMid: the viewer follows GME, or nothing.
MidFrames ==
    { Frame(TRUE, "subscribe", TRUE, "list", <<"GME">>),
      Frame(TRUE, "subscribe", TRUE, "list", <<>>) }

\* A viewer has connected and follows GME, whose responses are not cached;
\* those of the default tickers are.
InitMid ==
    /\ InitRun(WarmCache(Range(FEED_TICKERS)))
    /\ scoreIn = NoInput
    /\ readyState = [c \in Conns |-> IF c = 1 THEN WS_OPEN ELSE WS_NONE]
    /\ clientSubscriptions = [c \in Conns |-> IF c = 1 THEN <<"GME">> ELSE <<>>]
    /\ isPremium = [c \in Conns |-> c = 1]
    /\ dynamicTickers = <<[k |-> "GME", n |-> 1]>>

NextMid ==
    \/ TimerTickStamped
    \/ \E c \in Conns, m \in MidFrames : SubscribeStamped(c, m)
    \/ \E c \in Conns : OnClose(c)
    \/ \E call \in calls, ok \in BOOLEAN : RespondStamped(call, ok, "A")

\* Subscribes and closes that change the registry while cycles wait for the
\* responses of GME.
SpecMid == InitMid /\ [][NextMid]_vars

\* ------------------------------------------ the hook's reconnects

\* Time passes for the hook's timer in steps of HookStep ms.
HookStep == 5000

\* connect up to the handlers it installs (lines 53-57): the socket state
\* wsRef.current is left in.
connect == IF ~isMounted THEN wsRef ELSE "connecting"

\* The effect of lines 114-116 runs once the component has mounted.
HookMount ==
    /\ hookEv.type = "new"
    /\ isMounted' = TRUE
    /\ wsRef' = "connecting"
    /\ hookEv' = HookEvent("mount", 0)
    /\ UNCHANGED <<reconnectAttempts, reconnectTimer, connected, serverVars>>

\* ws.onopen (lines 59-64).
OnOpen ==
    /\ wsRef = "connecting"
    /\ wsRef' = "open"
    /\ connected' = IF isMounted THEN TRUE ELSE connected
    /\ reconnectAttempts' = IF isMounted THEN 0 ELSE reconnectAttempts
    /\ hookEv' = HookEvent("open", 0)
    /\ UNCHANGED <<reconnectTimer, isMounted, serverVars>>

\* ws.onerror (lines 91-94): the handler closes the socket.
OnSocketError ==
    /\ wsRef \in {"connecting", "open"}
    /\ wsRef' = "closing"
    /\ hookEv' = HookEvent("error", hookEv.tries)
    /\ UNCHANGED <<reconnectAttempts, reconnectTimer, isMounted, connected, serverVars>>

\* ws.onclose (lines 79-89): the socket has closed, by the server, by a
\* failed connection, or after a close() of the hook.
OnSocketClose ==
    /\ wsRef \in {"connecting", "open", "closing"}
    /\ wsRef' = "closed"
    /\ hookEv' = HookEvent("close", hookEv.tries)
    /\ IF ~isMounted
       THEN UNCHANGED <<connected, reconnectAttempts, reconnectTimer>>
       ELSE /\ connected' = FALSE
            /\ IF reconnectAttempts < MAX_RECONNECT_ATTEMPTS
               THEN /\ reconnectAttempts' = reconnectAttempts + 1
                    /\ reconnectTimer' =
                          [set |-> TRUE, pending |-> TRUE,
                           delay |-> RECONNECT_DELAY_MS * Min(reconnectAttempts', 4),
                           left |-> RECONNECT_DELAY_MS * Min(reconnectAttempts', 4)]
               ELSE UNCHANGED <<reconnectAttempts, reconnectTimer>>
    /\ UNCHANGED <<isMounted, serverVars>>

\* HookStep ms pass while the timer waits.
HookTick ==
    /\ reconnectTimer.pending
    /\ reconnectTimer.left > 0
    /\ reconnectTimer' =
          [reconnectTimer EXCEPT !.left =
              IF reconnectTimer.left > HookStep THEN reconnectTimer.left - HookStep ELSE 0]
    /\ hookEv' = HookEvent("clock", hookEv.tries)
    /\ UNCHANGED <<wsRef, reconnectAttempts, isMounted, connected, serverVars>>

\* The timer of line 87 fires after its delay and runs connect.
ReconnectTimerFires ==
    /\ reconnectTimer.pending
    /\ reconnectTimer.left = 0
    /\ reconnectTimer' = [reconnectTimer EXCEPT !.pending = FALSE]
    /\ wsRef' = connect
    /\ hookEv' = HookEvent("timer", IF isMounted THEN hookEv.tries + 1 ELSE hookEv.tries)
    /\ UNCHANGED <<reconnectAttempts, isMounted, connected, serverVars>>

\* Mutant of HookUnmount: the timer is left to fire.
HookUnmount_TimerKept ==
    /\ hookEv.type # "new"
    /\ isMounted
    /\ isMounted' = FALSE
    /\ wsRef' = IF wsRef \in {"connecting", "open"} THEN "closing" ELSE wsRef
    /\ hookEv' = HookEvent("unmount", hookEv.tries)
    /\ UNCHANGED <<reconnectAttempts, reconnectTimer, connected, serverVars>>

\* The cleanup of the effect (lines 118-122): the component unmounts.
HookUnmount ==
    /\ hookEv.type # "new"
    /\ isMounted
    /\ isMounted' = FALSE
    /\ reconnectTimer' = IF reconnectTimer.set
                         THEN [reconnectTimer EXCEPT !.pending = FALSE]
                         ELSE reconnectTimer
    /\ wsRef' = IF wsRef \in {"connecting", "open"} THEN "closing" ELSE wsRef
    /\ hookEv' = HookEvent("unmount", hookEv.tries)
    /\ UNCHANGED <<reconnectAttempts, connected, serverVars>>

NextHook ==
    \/ HookMount
    \/ OnOpen
    \/ OnSocketError
    \/ OnSocketClose
    \/ HookTick
    \/ ReconnectTimerFires
    \/ HookUnmount

\* The hook of one mounted component, its socket and its timer.
SpecHook == Init /\ [][NextHook]_vars

\* ------------------------------------------------------------ the scorer

\* The tickers scanned: an ETF, a mega-cap and a ticker of neither list.
ScoreTickers == {"SPY", "TSLA", "GME"}

\* The registry when the scan starts: empty, or a viewer follows one ticker.
ScoreRegistries ==
    {<<>>, <<[k |-> "TSLA", n |-> 1]>>, <<[k |-> "GME", n |-> 1]>>}

\* quotes.quote of the ticker's quote response; the quote of GME may come
\* without its symbol.
ScoreQuotes(ticker) ==
    {[present |-> TRUE, symbol |-> ticker, last |-> 10000]}
    \cup (IF ticker = "GME"
          THEN {[present |-> TRUE, symbol |-> "", last |-> 10000]} ELSE {})

ScoreVolumes == {0, 249, 250, 600, 999, 1000, 9999, 10000, 999999}

\* Last trade prices in cents; 0 when the contract has not traded.
ScoreLasts == {0, 1, 100, 500}

ScoreOpenInterests == {0, 100, 500, 1000, 2000}

\* <<bid, ask>> in cents.
ScoreBidAsks == {<<0, 0>>, <<90, 120>>, <<480, 520>>, <<500, 540>>}

\* 5, 7 and 8 days out, a week past, and a contract without expiration_date.
ScoreDates == {"2026-11-06", "2026-11-08", "2026-11-09", "2026-10-25", ""}

ScoreTypes == {"call", "put"}

ScoreClocks == {0, ClockStep}

ScoreInputs ==
    { [contract |-> Contract("X", ty, d, 30, v, oi, l, ba[1], ba[2]),
       quote |-> q[2], ticker |-> q[1], registry |-> reg] :
        ty \in ScoreTypes, d \in ScoreDates, v \in ScoreVolumes,
        oi \in ScoreOpenInterests, l \in ScoreLasts, ba \in ScoreBidAsks,
        q \in UNION {{<<t, qq>> : qq \in ScoreQuotes(t)} : t \in ScoreTickers},
        reg \in ScoreRegistries }

InitScore ==
    /\ InitRest(EmptyCache)
    /\ scoreIn \in ScoreInputs

\* The clock at which the scan reaches line 193.
ScoreClock(t) ==
    /\ ~scoreOut.done
    /\ now = 0
    /\ t > 0
    /\ now' = t
    /\ UNCHANGED <<regVars, sent, cache, cacheGhost, scanVars, scoreVars, hookVars>>
    /\ FlowQuiet

\* scanTicker's lines 193-222 run on a chain of the one contract.
Score ==
    /\ ~scoreOut.done
    /\ scoreOut' =
          [done |-> TRUE,
           result |-> scoreContract(scoreIn.contract, scoreIn.quote, now),
           signals |-> scanTickerFilter(<<scoreIn.contract>>, scoreIn.quote,
                                        scoreIn.ticker,
                                        MapHas(scoreIn.registry,
                                               toUpperCase(scoreIn.ticker)),
                                        now)]
    /\ UNCHANGED <<regVars, sent, now, cache, cacheGhost, scanVars, scoreIn, hookVars>>
    /\ FlowQuiet

NextScore ==
    \/ \E t \in ScoreClocks : ScoreClock(t)
    \/ Score

\* scoreContract and the scan's filter, on contracts drawn from ScoreInputs.
SpecScore == InitScore /\ [][NextScore]_vars

\* ------------------------------------------------ claims on the registry

Live(c) == readyState[c] \in {WS_OPEN, WS_CLOSING}

Holds(c, t) == SeqHas(clientSubscriptions[c], t)

\* The live connections (close handler not yet run) whose set contains t.
Holders(t) == {c \in Conns : Live(c) /\ Holds(c, t)}

Defaults == Range(FEED_TICKERS)

\* Every symbol a connection can hold.
Symbols == UNION {Range(MapUpper(l)) : l \in TickerLists}

InUniverse(reg, t) == SeqHas(getTickersToScan(reg), t)

\* The registry as the mapping ticker -> count, insertion order forgotten.
AsMapping(reg) == [t \in Range(MapKeys(reg)) |-> MapGet(reg, t)]

\* t's place among the non-default keys of the registry, in insertion order.
NonDefaultRank(reg, t) ==
    Cardinality({i \in 1..Len(reg) :
                    /\ reg[i].k \notin Defaults
                    /\ \E j \in i..Len(reg) : reg[j].k = t})

\* The state right after connection c's close handler, c having held t, while
\* another connection d that holds t has not closed yet.
OneOfTwoClosed(c, d, t) ==
    /\ c # d /\ t \notin Defaults
    /\ lastEv.type = "close" /\ lastEv.conn = c
    /\ Holds(c, t) /\ Live(d) /\ Holds(d, t)

\* The state right after the close handler of d, the last holder of t, another
\* holder c of t having closed before.
BothClosed(c, d, t) ==
    /\ c # d /\ t \notin Defaults
    /\ lastEv.type = "close" /\ lastEv.conn = d
    /\ Holds(d, t) /\ readyState[c] = WS_CLOSED /\ Holds(c, t)
    /\ Holders(t) = {}

\* C1 as stated: two connections hold the same non-default ticker T; after
\* exactly one of them closes T is still a registry key and still in the Ticker
\* Universe; after both have closed T is no longer a registry key.
C1_Original ==
    \A c, d \in Conns : \A t \in Symbols :
        /\ OneOfTwoClosed(c, d, t) =>
               MapHas(dynamicTickers, t) /\ InUniverse(dynamicTickers, t)
        /\ BothClosed(c, d, t) => ~MapHas(dynamicTickers, t)

\* C1 amended: after exactly one of the two holders of T closes, T is still a
\* registry key with count >= 1, and it is in the Ticker Universe exactly when
\* it is among the first MAX_TICKERS - 8 non-default keys of the registry (the
\* cap truncates the later ones); after both have closed T is no longer a key.
C1_RefCounted ==
    \A c, d \in Conns : \A t \in Symbols :
        /\ OneOfTwoClosed(c, d, t) =>
               /\ MapHas(dynamicTickers, t)
               /\ MapGet(dynamicTickers, t) >= 1
               /\ InUniverse(dynamicTickers, t) <=>
                      NonDefaultRank(dynamicTickers, t)
                          <= MAX_TICKERS - Len(FEED_TICKERS)
        /\ BothClosed(c, d, t) => ~MapHas(dynamicTickers, t)

\* C1 witness: one of two holders of a ticker inside the cap has just closed.
C1_Witness ==
    \E c, d \in Conns : \E t \in Symbols :
        OneOfTwoClosed(c, d, t) /\ InUniverse(dynamicTickers, t)

\* C2: the registry count of every ticker equals the number of live
\* connections whose current subscription set contains it, and a ticker that
\* no live connection holds is not a key of the registry.
C2_CountIsHolders ==
    \A t \in Symbols :
        /\ MapGet(dynamicTickers, t) = Cardinality(Holders(t))
        /\ MapHas(dynamicTickers, t) <=> Holders(t) # {}

\* C2 witness: a ticker held by two connections, reached by a re-subscribe.
C2_Witness ==
    \E t \in Symbols :
        /\ Cardinality(Holders(t)) = 2
        /\ lastEv.type = "subscribe" /\ lastEv.subsBefore # <<>>

\* C3: every count stored in the registry is an integer >= 1.
C3_CountsPositive ==
    \A i \in 1..Len(dynamicTickers) :
        dynamicTickers[i].n \in Nat /\ dynamicTickers[i].n >= 1

\* C3 witness: a close has taken one count from 2 to 1 and removed another
\* entry whose count was 1.
C3_Witness ==
    /\ lastEv.type = "close"
    /\ \E t \in Symbols :
           MapGet(lastEv.regBefore, t) = 2 /\ MapGet(dynamicTickers, t) = 1
    /\ \E t \in Symbols :
           MapGet(lastEv.regBefore, t) = 1 /\ ~MapHas(dynamicTickers, t)

\* C4: the Ticker Universe contains every default ticker, has no duplicates
\* and has at most 20 members.
C4_Universe ==
    LET u == getTickersToScan(dynamicTickers)
    IN  /\ \A t \in Defaults : SeqHas(u, t)
        /\ \A i, j \in 1..Len(u) : u[i] = u[j] => i = j
        /\ Len(u) <= 20

\* C4 witness: the registry holds a default ticker and more non-default keys
\* than fit under the cap.
C4_Witness ==
    /\ MapHas(dynamicTickers, "TSLA")
    /\ Cardinality(Range(MapKeys(dynamicTickers)) \ Defaults) > 12

\* C5: when one connection's accepted subscribe with set B directly follows its
\* accepted subscribe with set A, the registry (as the mapping ticker -> count)
\* and the connection's set are those obtained by subscribing B alone from the
\* state before A: tickers of A not in B are released, tickers in both are
\* counted once, and re-sending the same set changes nothing.
C5_SecondSetOnly ==
    (lastEv.type = "subscribe" /\ lastEv.again) =>
        LET c == lastEv.conn
            only == SubscribeUpdate(lastEv.reg2, lastEv.subs2, lastEv.tickers)
            A == Range(lastEv.subsBefore)
            B == Range(clientSubscriptions[c])
            orig == Range(lastEv.subs2)
        IN  /\ AsMapping(dynamicTickers) = AsMapping(only.reg)
            /\ clientSubscriptions[c] = only.subs
            /\ \A t \in A \ B :
                   MapGet(dynamicTickers, t) =
                       MapGet(lastEv.reg2, t) - (IF t \in orig THEN 1 ELSE 0)
            /\ \A t \in A \cap B :
                   MapGet(dynamicTickers, t) =
                       MapGet(lastEv.reg2, t) + (IF t \in orig THEN 0 ELSE 1)
            /\ A = B => dynamicTickers = lastEv.regBefore

\* C5 witness: B directly follows A, with a ticker of A released and a ticker
\* common to A and B kept.
C5_Witness ==
    /\ lastEv.type = "subscribe" /\ lastEv.again
    /\ Range(lastEv.subsBefore) \ Range(clientSubscriptions[lastEv.conn]) # {}
    /\ Range(lastEv.subsBefore) \cap Range(clientSubscriptions[lastEv.conn]) # {}

\* C6: the close handler leaves the registry as an accepted subscribe to the
\* empty list would: every ticker of the connection's set is decremented
\* exactly once, every other ticker is untouched, and a closed connection has
\* no further cleanup.
C6_CloseIsEmptySubscribe ==
    /\ lastEv.type = "close" =>
           LET c == lastEv.conn
               emptied == SubscribeUpdate(lastEv.regBefore,
                                          clientSubscriptions[c], <<>>)
           IN  /\ dynamicTickers = emptied.reg
               /\ \A t \in Symbols :
                      MapGet(dynamicTickers, t) =
                          MapGet(lastEv.regBefore, t)
                              - (IF Holds(c, t) THEN 1 ELSE 0)
               /\ readyState[c] = WS_CLOSED
    /\ \A c \in Conns : readyState[c] = WS_CLOSED => ~ENABLED OnClose(c)

\* C6 witness: a close that removed one entry, decremented a shared one and
\* left a third alone.
C6_Witness ==
    /\ lastEv.type = "close"
    /\ \E t \in Symbols :
           Holds(lastEv.conn, t) /\ ~MapHas(dynamicTickers, t)
    /\ \E t \in Symbols :
           Holds(lastEv.conn, t) /\ MapHas(dynamicTickers, t)
    /\ \E t \in Symbols :
           ~Holds(lastEv.conn, t) /\ MapHas(dynamicTickers, t)

\* C7: a subscribe without the premium flag leaves the registry, the
\* connection's set and the Ticker Universe unchanged, starts no broadcast
\* cycle and sends exactly one error message on that connection, also when
\* the connection was elevated by an earlier message.
C7_DeniedIsInert ==
    lastEv.type = "denied" =>
        /\ dynamicTickers = lastEv.regBefore
        /\ clientSubscriptions[lastEv.conn] = lastEv.subsBefore
        /\ getTickersToScan(dynamicTickers) = getTickersToScan(lastEv.regBefore)
        /\ ~started
        /\ sent = <<ErrorMsg(lastEv.conn)>>

\* C7 witness: a denied subscribe on a connection elevated earlier that holds
\* tickers.
C7_Witness ==
    /\ lastEv.type = "denied"
    /\ isPremium[lastEv.conn]
    /\ clientSubscriptions[lastEv.conn] # <<>>

\* C8 as stated: every invalid message (undecodable, or an elevated subscribe
\* whose tickers field is missing or not a list of strings) is answered with an
\* error message on that connection, and the connection stays open.
C8_InvalidAnswered ==
    lastEv.type = "invalid" =>
        /\ sent = <<ErrorMsg(lastEv.conn)>>
        /\ readyState[lastEv.conn] = WS_OPEN

\* ---------------------------------------------------- claims on the cache

\* ------------------------------------------- claims on the broadcast cycle

\* The handlers that end by calling broadcastFlow.
Triggers == {"timer", "connect", "subscribe"}

\* C9: a call of broadcastFlow that finds wss.clients empty sends no request
\* upstream, writes nothing to the cache and sends no message, whichever
\* handler made the call.
C9_EmptyCycleIsSkipped ==
    (lastEv.type \in Triggers /\ Clients(readyState) = {})
        => /\ issued = {}
           /\ wrote = {}
           /\ sent = <<>>
           /\ ~started

\* The timer has fired after the last viewer left, while the quote of SPY is
\* not cached, so a cycle would have had to fetch it.
C9_Witness ==
    /\ lastEv.type = "timer"
    /\ Clients(readyState) = {}
    /\ \E c \in Conns : readyState[c] = WS_CLOSED
    /\ QuoteKey("SPY") \notin DOMAIN cache

\* A cycle that does start fetches upstream: the timer has fired with a viewer
\* connected and requests have gone out.
C9_CycleFetches ==
    /\ lastEv.type = "timer"
    /\ Clients(readyState) # {}
    /\ issued # {}

\* C10: after set(k, v, ttl) at time t, get(k) returns v at every time
\* now <= t + ttl and absent at every time now > t + ttl, swept or not; a get
\* that finds the entry expired leaves the map without it.
C10_Visibility ==
    cacheRet.op = "get" =>
        LET k == cacheRet.key
            h == lastSet[k]
        IN  /\ (h.set /\ cacheRet.at <= h.at + h.ttl) => cacheRet.ret = h.value
            /\ (h.set /\ cacheRet.at > h.at + h.ttl) =>
                   cacheRet.ret = Null /\ k \notin DOMAIN cache
            /\ ~h.set => cacheRet.ret = Null

\* C10 witness: a get at exactly t + ttl returned the value that was set, with
\* the clock having moved since the set.
C10_Witness ==
    /\ cacheRet.op = "get"
    /\ lastSet[cacheRet.key].set
    /\ lastSet[cacheRet.key].ttl > 0
    /\ cacheRet.at = lastSet[cacheRet.key].at + lastSet[cacheRet.key].ttl
    /\ cacheRet.ret = lastSet[cacheRet.key].value

\* A get after t + ttl, no sweep having run since the set, returned absent.
C10_ExpiredUnswept ==
    /\ cacheRet.op = "get"
    /\ lastSet[cacheRet.key].set
    /\ ~lastSet[cacheRet.key].swept
    /\ cacheRet.at > lastSet[cacheRet.key].at + lastSet[cacheRet.key].ttl
    /\ cacheRet.ret = Null

\* ---------------------------------------------------- claims on the sweep

\* What a sweep run does to the map: the entries whose expiresAt is before the
\* sweep time are gone, the others are kept as they were, none is added.
SweepEffect ==
    /\ DOMAIN cache' \subseteq DOMAIN cache
    /\ \A k \in DOMAIN cache :
          IF cache[k].expiresAt < now
          THEN k \notin DOMAIN cache'
          ELSE k \in DOMAIN cache' /\ cache'[k] = cache[k]

\* C11: a sweep run removes every entry whose expiresAt is before the sweep
\* time, requested again or not, and leaves every other entry (key, value,
\* expiresAt) as it was; with the sweep firing again and again, every entry is
\* eventually out of the map (an entry that is set again is a new entry, and
\* is removed in its turn).
C11_SweepRemovesExpired ==
    /\ [][CacheSweep => SweepEffect]_vars
    /\ \A k \in CacheKeys : (k \in DOMAIN cache) ~> (k \notin DOMAIN cache)

\* A sweep has just run: it has removed an expired entry that no cacheGet
\* asked for since it was set, and has kept an entry that has not expired.
C11_Witness ==
    /\ cacheRet.op = "sweep"
    /\ \E k1, k2 \in CacheKeys :
          /\ lastSet[k1].set /\ ~lastSet[k1].read
          /\ lastSet[k1].at + lastSet[k1].ttl < cacheRet.at
          /\ k1 \notin DOMAIN cache
          /\ lastSet[k2].set
          /\ lastSet[k2].at + lastSet[k2].ttl >= cacheRet.at
          /\ k2 \in DOMAIN cache

\* ------------------------------------------------- claims on tradierFetch

\* A fetch of k with a ttl that finds an unexpired entry of k: it returns the
\* entry's value, sends nothing upstream and leaves the cache as it was.
HitEffect(k) ==
    /\ cacheRet'.op = "hit"
    /\ cacheRet'.ret = cache[k].value
    /\ issued' = {}
    /\ calls' = calls
    /\ cache' = cache

\* C12: a fetch of k with a ttl that starts while the cache holds an
\* unexpired entry of k returns exactly the cached value, makes no upstream
\* call and leaves the entry, its expiresAt included, unchanged.
C12_HitReturnsCached ==
    [][\A k \in CacheKeys, ttl \in FetchTtls :
          (Fetch(k, ttl) /\ ttl # NO_TTL /\ k \in DOMAIN cache
                         /\ now <= cache[k].expiresAt)
              => HitEffect(k)]_vars

\* C12 for the entries whose value is not JSON null.
C12_HitNonNull ==
    [][\A k \in CacheKeys, ttl \in FetchTtls :
          (Fetch(k, ttl) /\ ttl # NO_TTL /\ k \in DOMAIN cache
                         /\ now <= cache[k].expiresAt /\ cache[k].value # Null)
              => HitEffect(k)]_vars

\* A fetch has just been served from the cache, later than the entry was
\* stored and before it ran out.
C12_Witness ==
    /\ cacheRet.op = "hit"
    /\ cacheRet.key \in DOMAIN cache
    /\ cacheRet.ret = cache[cacheRet.key].value
    /\ lastSet[cacheRet.key].at < cacheRet.at
    /\ cacheRet.at <= cache[cacheRet.key].expiresAt
    /\ calls = {}

\* What the end of a fetch does when the response is not a success: it throws
\* with the status and the path, the cache is as it was, no request goes out.
FailureEffect(call, status) ==
    /\ cacheRet'.op = "error"
    /\ cacheRet'.status = status
    /\ cacheRet'.key = call.key
    /\ cache' = cache
    /\ issued' = {}
    /\ calls' = calls \ {call}

\* What it does on a success: the body is returned; with a ttl it is stored
\* under the path with expiresAt = now + ttl and no other entry is touched,
\* without a ttl the cache is as it was.
SuccessEffect(call, v) ==
    /\ cacheRet'.op = "ok"
    /\ cacheRet'.ret = v
    /\ issued' = {}
    /\ calls' = calls \ {call}
    /\ IF call.ttl # NO_TTL
       THEN /\ DOMAIN cache' = DOMAIN cache \cup {call.key}
            /\ cache'[call.key] = [value |-> v, expiresAt |-> now + call.ttl]
            /\ \A k \in DOMAIN cache \ {call.key} : cache'[k] = cache[k]
       ELSE cache' = cache

\* C13: on a non-success response the fetch throws an error with the status
\* and the path, writes nothing to the cache and sends no second request; on
\* a success it stores the decoded body under the path with expiresAt = time
\* of completion + ttl before it returns if a ttl was given, and stores
\* nothing if none was.
C13_ResponseEffect ==
    [][\A call \in calls, status \in Statuses, v \in FetchBodies :
          FetchReturn(call, status, v)
              => IF ResOk(status) THEN SuccessEffect(call, v)
                 ELSE FailureEffect(call, status)]_vars

\* A fetch has just thrown on a non-success response while the cache held an
\* entry of its path, and the entry is still there.
C13_Witness ==
    /\ cacheRet.op = "error"
    /\ ~ResOk(cacheRet.status)
    /\ cacheRet.key \in DOMAIN cache
    /\ cache[cacheRet.key].value = lastSet[cacheRet.key].value
    /\ calls = {}

\* A fetch with a ttl has just stored and returned the body, later than 0.
C13_StoredWithTtl ==
    /\ cacheRet.op = "ok"
    /\ cacheRet.at > 0
    /\ wrote = {cacheRet.key}
    /\ cache[cacheRet.key] = [value |-> cacheRet.ret, expiresAt |-> cacheRet.at + QUOTE_TTL]

\* A fetch without a ttl has just returned the body and stored nothing.
C13_NotStoredNoTtl ==
    /\ cacheRet.op = "ok"
    /\ cacheRet.ret # Null
    /\ wrote = {}
    /\ cacheRet.key \notin DOMAIN cache

\* ------------------------------------------------------ claims on the scan

\* The signals of a message's data that belong to ticker t.
SignalsOf(m, t) == {n \in 1..Len(m.data) : m.data[n].ticker = toUpperCase(t)}

\* A fetch of scan i of cycle cy has thrown while the scan was running: the
\* scan has returned [] (the cycle goes on with it done and empty), or, if it
\* was the last scan to return, every message sent carries no signal of its
\* ticker and every signal the other scans returned.
FailureIsolated(id, i) ==
    LET cy == cycles[id] IN
    IF cycles'[id].st = "scanning"
    THEN /\ cycles'[id].scans[i].phase = "done"
         /\ cycles'[id].scans[i].out = <<>>
         /\ \A j \in 1..Len(cy.scans) : j # i => cycles'[id].scans[j] = cy.scans[j]
         /\ sent' = <<>>
    ELSE /\ Len(sent') = Cardinality({c \in Conns : readyState[c] = WS_OPEN})
         /\ \A n \in 1..Len(sent') :
               /\ sent'[n].type = "flow_update"
               /\ SignalsOf(sent'[n], cy.tickers[i]) = {}
               /\ \A j \in 1..Len(cy.scans) : j # i =>
                     \A x \in Range(cy.scans[j].out) : x \in Range(sent'[n].data)

C14_AllAnswered ==
    /\ lastEv.type = "response"
    /\ wrote # {}
    /\ sent # <<>>
    /\ SignalsOf(sent[1], "SPY") # {}
    /\ SignalsOf(sent[1], "TSLA") # {}

\* ------------------------------------------------ claims on the scan depth

\* The chain paths a scan has passed to tradierFetch.
ChainsAsked(sc) ==
    {k \in DOMAIN sc.vals \cup sc.wait : k.path = "/markets/options/chains"}

\* The expiration dates the provider lists for a ticker.
DatesListed(t) == ensureArray(DatesOf(ExpKey(t), "A"))

\* The chain paths of the first n expirations of a ticker.
FirstChains(t, n) ==
    {ChainKey(t, DatesListed(t)[j]) : j \in 1..Min(n, Len(DatesListed(t)))}

Follows(t) == MapHas(dynamicTickers, toUpperCase(t))

DepthOf(t) == IF Follows(t) THEN 3 ELSE 1

\* No chain is asked for before the quote and the expirations are in; once
\* they are, the quote is there, the list is not empty, and the chains asked
\* for are those of the first DepthOf expirations.
DepthInv ==
    /\ \A id \in CycleIds : Running(cycles[id]) =>
          \A i \in 1..Len(cycles[id].scans) :
              LET sc == cycles[id].scans[i]
                  t == cycles[id].tickers[i]
              IN  /\ sc.phase = "p1" => ChainsAsked(sc) = {}
                  /\ sc.phase = "p2" =>
                        /\ QuoteOf(QuoteKey(t), sc.vals[QuoteKey(t)]).present
                        /\ DatesListed(t) # <<>>
                        /\ ChainsAsked(sc) = FirstChains(t, DepthOf(t))
    /\ \A call \in calls : call.key.path = "/markets/options/chains" =>
          call.key \in FirstChains(call.key.symbol, DepthOf(call.key.symbol))

\* The response that completes the quote and the expirations of scan i of
\* run id leaves the quote absent or the list empty: no chain is sent for and
\* the scan returns [], which the reply shows if the scan was the last.
EarlyReturn(id, i) ==
    /\ \A k \in issued' : k.path # "/markets/options/chains"
    /\ IF Running(cycles'[id])
       THEN /\ cycles'[id].scans[i].phase = "done"
            /\ cycles'[id].scans[i].out = <<>>
       ELSE /\ Len(sent') = 1
            /\ SignalsOf(sent'[1], cycles[id].tickers[i]) = {}

C16_DefaultFollowed ==
    \E id \in CycleIds :
        /\ Running(cycles[id])
        /\ cycles[id].tickers = <<"SPY">>
        /\ Follows("SPY")
        /\ cycles[id].scans[1].phase = "p2"
        /\ Cardinality(ChainsAsked(cycles[id].scans[1])) = 2

\* The scan of GME when nobody follows it asks for one chain.
C16_NotFollowed ==
    \E id \in CycleIds :
        /\ Running(cycles[id])
        /\ cycles[id].tickers = <<"GME">>
        /\ ~Follows("GME")
        /\ cycles[id].scans[1].phase = "p2"
        /\ Cardinality(ChainsAsked(cycles[id].scans[1])) = 1

\* The request for VXX, which has no expirations, has been answered with the
\* empty list on the second response.
C16_NoExpirations ==
    /\ lastEv.type = "response"
    /\ wrote # {}
    /\ \A k \in wrote : k.symbol = "VXX"
    /\ sent = <<HttpReply(<<>>)>>
    /\ issued = {}

\* The request for SPY, whose quote response came without a quote, has been
\* answered with the empty list and no chain of SPY was sent for.
C16_NoQuote ==
    /\ lastEv.type = "response"
    /\ wrote # {}
    /\ \A k \in wrote : k.symbol = "SPY" /\ k.path # "/markets/options/chains"
    /\ QuoteKey("SPY") \in DOMAIN cache
    /\ cache[QuoteKey("SPY")].value = "B"
    /\ sent = <<HttpReply(<<>>)>>
    /\ issued = {}

\* ---------------------------------------------------- claims on the scorer

\* isDynamic of the scan that scored scoreIn (line 169).
InRegistry == MapHas(scoreIn.registry, toUpperCase(scoreIn.ticker))

InDefaultSet == SeqHas(FEED_TICKERS, toUpperCase(scoreIn.ticker))

\* The contract was scored, not discarded by the noise filter.
WasScored == scoreOut.done /\ scoreOut.result # NoiseResult

\* The scan returned the contract.
Included == scoreOut.done /\ Len(scoreOut.signals) = 1

C15_BelowDefault ==
    /\ WasScored
    /\ ~InRegistry
    /\ scoreOut.result.score \in 30..39
    /\ ~Included

\* A viewer follows a ticker of the default set.
C15_DefaultFollowed ==
    \E i \in 1..Len(FEED_TICKERS) : MapHas(dynamicTickers, FEED_TICKERS[i])

\* C17: whatever the contract and the quote (non-negative volume, open
\* interest, bid, ask and last, any expiration date, none included), the score
\* the scorer returns is in 0..100, and so is the score of a signal.
C17_ScoreInRange ==
    scoreOut.done =>
        /\ scoreOut.result.score \in 0..100
        /\ \A i \in 1..Len(scoreOut.signals) : scoreOut.signals[i].score \in 0..100

\* The four components at their maximum: 40 + 30 + 20 + 10.
C17_Witness ==
    /\ WasScored
    /\ scoreOut.result.score = 100
    /\ scoreIn.contract.volume * scoreIn.contract.last >= 1000000
    /\ scoreIn.contract.volume >= 5 * OrElse(scoreIn.contract.open_interest, 1)

\* A contract that passes the noise filter and earns no point.
C17_ScoredZero == WasScored /\ scoreOut.result.score = 0

\* A contract without expiration_date, and one that expired a week ago.
C17_NoDate == WasScored /\ scoreIn.contract.expiration_date = ""

C17_PastDate ==
    /\ WasScored
    /\ scoreIn.contract.expiration_date = "2026-10-25"
    /\ scoreOut.result.details.daysToExp < 0

\* The floor of the class of the scored ticker, in dollars.
ClassFloor ==
    IF scoreIn.quote.symbol \in {"SPY", "QQQ", "IWM", "DIA", "VXX"} THEN 1000000
    ELSE IF scoreIn.quote.symbol \in
               {"TSLA", "NVDA", "AAPL", "MSFT", "AMZN", "META", "GOOGL"} THEN 100000
    ELSE 25000

\* volume x price x 100 in dollars, price being the last trade price, or the
\* ask when there has been no trade.
PremiumLastOrAsk ==
    scoreIn.contract.volume * (IF scoreIn.contract.last # 0
                               THEN scoreIn.contract.last ELSE scoreIn.contract.ask)

C18_AtFloorEtf ==
    WasScored /\ scoreIn.quote.symbol = "SPY" /\ PremiumLastOrAsk = 1000000

C18_AtFloorMegaCap ==
    WasScored /\ scoreIn.quote.symbol = "TSLA" /\ PremiumLastOrAsk = 100000

C18_AtFloorOther ==
    WasScored /\ scoreIn.quote.symbol \in {"GME", ""} /\ PremiumLastOrAsk = 25000

\* A contract just below the floor has been discarded, in the other classes.
C18_BelowFloorMegaCap ==
    scoreOut.done /\ ~WasScored /\ scoreIn.quote.symbol = "TSLA"
        /\ PremiumLastOrAsk = 99900

C18_BelowFloorOther ==
    scoreOut.done /\ ~WasScored /\ scoreIn.quote.symbol = "GME"
        /\ PremiumLastOrAsk = 24900

\* C19: the premium the scorer uses is volume x price x 100 with price the
\* last trade price, or the ask when there has been no trade; so a contract
\* with last = 0, ask > 0 and volume x ask x 100 at or above its class floor
\* is scored, not discarded.
C19_AskWhenUntraded ==
    (/\ scoreOut.done
     /\ scoreIn.contract.last = 0
     /\ scoreIn.contract.ask > 0
     /\ PremiumLastOrAsk >= ClassFloor) => WasScored

\* What the scorer does: its premium is volume x last x 100, so a contract
\* passes the noise filter exactly when that is at or above the class floor,
\* and a contract that has not traded never does.
C19_LastOnly ==
    scoreOut.done =>
        /\ WasScored <=> scoreIn.contract.volume * scoreIn.contract.last >= ClassFloor
        /\ scoreIn.contract.last = 0 => ~WasScored

\* An untraded contract of a ticker of neither list, 1000 contracts asked at
\* $1.20 ($120,000), has been discarded.
C19_UntradedDiscarded ==
    /\ scoreOut.done
    /\ scoreIn.quote.symbol = "GME"
    /\ scoreIn.contract.volume = 1000
    /\ scoreIn.contract.last = 0
    /\ scoreIn.contract.ask = 120
    /\ ~WasScored
    /\ scoreOut.signals = <<>>

\* The contract of the worked scenario: a ticker of neither list, volume 600,
\* open interest 100, last $5, bid $4.80, ask $5.20, expiring in 5 days.
Scenario ==
    /\ scoreOut.done
    /\ scoreIn.quote.symbol = "GME"
    /\ scoreIn.contract.volume = 600
    /\ scoreIn.contract.open_interest = 100
    /\ scoreIn.contract.last = 500
    /\ scoreIn.contract.bid = 480
    /\ scoreIn.contract.ask = 520
    /\ scoreIn.contract.expiration_date = "2026-11-06"

\* C20 as stated: the contract of the scenario has premium $300,000, passes
\* the noise filter and is scored 90.
C20_Original ==
    Scenario =>
        /\ PremiumLastOrAsk = 300000
        /\ WasScored
        /\ scoreOut.result.score = 90

\* C20: the contract of the scenario has premium $300,000, passes the noise
\* filter and is scored 80 (20 premium + 30 ratio + 20 aggression + 10
\* urgency): its ratio is 6.00, it expires in 5 days, it traded at the ask
\* side (a call is Bullish, a put Bearish), and the scan returns it.
C20_Scenario ==
    Scenario =>
        /\ PremiumLastOrAsk = 300000
        /\ WasScored
        /\ scoreOut.result.score = 80
        /\ scoreOut.result.details = [volOiRatio |-> 600, daysToExp |-> 5]
        /\ scoreOut.result.sentiment \in {"Bullish", "Bearish"}
        /\ Included
        /\ scoreOut.signals[1].premium = 300000

C20_Witness ==
    /\ Scenario
    /\ scoreOut.result.score = 80
    /\ scoreIn.contract.option_type = "call"
    /\ scoreIn.registry = <<>>

\* The premium of the scored contract in dollars; it has traded.
PremiumTraded == scoreIn.contract.volume * scoreIn.contract.last

\* P: the premium intensity points.
PointsP ==
    IF PremiumTraded >= 1000000 THEN 40
    ELSE IF PremiumTraded >= 500000 THEN 30
    ELSE IF PremiumTraded >= 100000 THEN 20
    ELSE IF PremiumTraded >= 50000 THEN 10
    ELSE 0

\* max(open interest, 1).
OiOrOne == IF scoreIn.contract.open_interest > 1 THEN scoreIn.contract.open_interest ELSE 1

\* R: the points of the ratio volume / max(open interest, 1).
PointsR ==
    IF scoreIn.contract.volume >= 5 * OiOrOne THEN 30
    ELSE IF scoreIn.contract.volume >= 2 * OiOrOne THEN 20
    ELSE IF scoreIn.contract.volume >= OiOrOne THEN 10
    ELSE 0

\* last >= (bid + ask) / 2.
AtAsk == 2 * scoreIn.contract.last >= scoreIn.contract.bid + scoreIn.contract.ask

\* The days from the clock of the scorer to the expiration of the contract,
\* rounded up; no value for a contract without a date.
DaysToExpiration ==
    CASE scoreIn.contract.expiration_date = "2026-11-06" -> <<5>>
      [] scoreIn.contract.expiration_date = "2026-11-08" -> <<7>>
      [] scoreIn.contract.expiration_date = "2026-11-09" -> <<8>>
      [] scoreIn.contract.expiration_date = "2026-10-25" -> <<-7>>
      [] OTHER -> <<>>

\* U: the urgency points.
PointsU == IF DaysToExpiration # <<>> /\ DaysToExpiration[1] <= 7 THEN 10 ELSE 0

PointsA == IF AtAsk THEN 20 ELSE 0

C21_JustBelowMillion ==
    /\ WasScored
    /\ PremiumTraded = 999999
    /\ PointsA + PointsU = 0
    /\ scoreOut.result.score = 30 + PointsR

\* The ratio at exactly 5, 2 and 1, and just below 5, 2 and 1.
C21_RatioFive ==
    WasScored /\ scoreIn.contract.volume = 10000 /\ scoreIn.contract.open_interest = 2000
        /\ PointsR = 30 /\ scoreOut.result.score = PointsP + 30 + PointsA + PointsU

C21_RatioBelowFive ==
    WasScored /\ scoreIn.contract.volume = 9999 /\ scoreIn.contract.open_interest = 2000
        /\ PointsR = 20 /\ scoreOut.result.score = PointsP + 20 + PointsA + PointsU

C21_RatioTwo ==
    WasScored /\ scoreIn.contract.volume = 1000 /\ scoreIn.contract.open_interest = 500
        /\ PointsR = 20 /\ scoreOut.result.score = PointsP + 20 + PointsA + PointsU

C21_RatioBelowTwo ==
    WasScored /\ scoreIn.contract.volume = 999 /\ scoreIn.contract.open_interest = 500
        /\ PointsR = 10 /\ scoreOut.result.score = PointsP + 10 + PointsA + PointsU

C21_RatioOne ==
    WasScored /\ scoreIn.contract.volume = 1000 /\ scoreIn.contract.open_interest = 1000
        /\ PointsR = 10 /\ scoreOut.result.score = PointsP + 10 + PointsA + PointsU

C21_RatioBelowOne ==
    WasScored /\ scoreIn.contract.volume = 999 /\ scoreIn.contract.open_interest = 1000
        /\ PointsR = 0 /\ scoreOut.result.score = PointsP + PointsA + PointsU

\* last exactly at the mid earns the 20, last below it does not; 7 days earn
\* the 10, 8 days do not.
C21_AtMid ==
    WasScored /\ scoreIn.contract.last = 500 /\ scoreIn.contract.bid = 480
        /\ scoreIn.contract.ask = 520
        /\ scoreOut.result.score = PointsP + PointsR + 20 + PointsU

C21_BelowMid ==
    WasScored /\ scoreIn.contract.last = 500 /\ scoreIn.contract.bid = 500
        /\ scoreIn.contract.ask = 540
        /\ scoreOut.result.score = PointsP + PointsR + PointsU

C21_SevenDays ==
    WasScored /\ DaysToExpiration = <<7>> /\ now = ClockStep
        /\ scoreOut.result.score = PointsP + PointsR + PointsA + 10

C21_EightDays ==
    WasScored /\ DaysToExpiration = <<8>> /\ now = ClockStep
        /\ scoreOut.result.score = PointsP + PointsR + PointsA

\* C22: the sentiment of a scored contract depends on the option type and on
\* whether it traded at the ask, and on nothing else: call at the ask is
\* Bullish, call not at the ask Bearish (Sell), put at the ask Bearish, put
\* not at the ask Bullish (Sell), and the signal carries the same sentiment.
C22_Sentiment ==
    WasScored =>
        /\ scoreOut.result.sentiment =
              (CASE scoreIn.contract.option_type = "call" /\ AtAsk -> "Bullish"
                 [] scoreIn.contract.option_type = "call" /\ ~AtAsk -> "Bearish (Sell)"
                 [] scoreIn.contract.option_type = "put" /\ AtAsk -> "Bearish"
                 [] scoreIn.contract.option_type = "put" /\ ~AtAsk -> "Bullish (Sell)")
        /\ \A i \in 1..Len(scoreOut.signals) :
              scoreOut.signals[i].sentiment = scoreOut.result.sentiment

\* The four cells of the table, each on a scored contract.
C22_Witness ==
    WasScored /\ scoreIn.contract.option_type = "call" /\ ~AtAsk
        /\ scoreOut.result.sentiment = "Bearish (Sell)"

C22_CallAtAsk ==
    WasScored /\ scoreIn.contract.option_type = "call" /\ AtAsk
        /\ scoreOut.result.sentiment = "Bullish"

C22_PutAtAsk ==
    WasScored /\ scoreIn.contract.option_type = "put" /\ AtAsk
        /\ scoreOut.result.sentiment = "Bearish"

C22_PutNotAtAsk ==
    WasScored /\ scoreIn.contract.option_type = "put" /\ ~AtAsk
        /\ scoreOut.result.sentiment = "Bullish (Sell)"

\* One cell with two different premiums, ratios and expirations: a call not
\* at the ask scored 0 on a far date, and one scored 80 or more on a near one.
C22_SameCellLow ==
    C22_Witness /\ scoreOut.result.score = 0 /\ PointsU = 0

C22_SameCellHigh ==
    C22_Witness /\ scoreOut.result.score >= 80 /\ PointsU = 10

\* ------------------------------------------- claims on the delivery

\* The channels the last step sent a flow_update to.
Receivers == {sent[n].to : n \in {i \in 1..Len(sent) : sent[i].type = "flow_update"}}

\* The last step sent the flow of a broadcast cycle that had been waiting
\* for responses.
CycleFinished == finished.some /\ lastEv.type = "response"

\* The payload of a finished cycle went, once, to every channel that is open
\* and to no other, and no flow_update ever goes to a channel that is not
\* open.
SentToOpen ==
    /\ Receivers \subseteq OpenClients(readyState)
    /\ finished.some =>
          /\ Receivers = OpenClients(readyState)
          /\ Len(sent) = Cardinality(OpenClients(readyState))
          /\ \A n \in 1..Len(sent) : sent[n].type = "flow_update"

\* C23: a broadcast cycle that finishes its scans sends its payload to
\* exactly the channels that are open at that moment. A channel that closed
\* or errored while the scans were in flight receives nothing, then or later;
\* the close or the error leaves the cycle and its requests as they are; every
\* channel still open receives the payload.
C23_OpenOnly ==
    /\ []SentToOpen
    /\ [][(\E c \in Conns : OnClose(c) \/ OnError(c))
            => (cycles' = cycles /\ calls' = calls)]_vars

\* A cycle was called with both channels open, one closed while it waited,
\* and its payload has gone to the other alone.
C23_Witness ==
    /\ CycleFinished
    /\ finished.clients = {1, 2}
    /\ \E c \in Conns : readyState[c] = WS_CLOSED /\ Receivers = Conns \ {c}

\* The same with a channel that errored and has not closed yet.
C23_Errored ==
    /\ CycleFinished
    /\ finished.clients = {1, 2}
    /\ \E c \in Conns : readyState[c] = WS_CLOSING /\ Receivers = Conns \ {c}

\* Every channel left while the cycle waited: it finished and sent nothing.
C23_AllGone ==
    /\ CycleFinished
    /\ finished.clients # {}
    /\ OpenClients(readyState) = {}
    /\ sent = <<>>

\* A channel closes while a cycle waits for its responses.
C23_ClosedInFlight ==
    /\ lastEv.type = "close"
    /\ \E id \in CycleIds : cycles[id].st = "scanning" /\ lastEv.conn \in cycles[id].clients

\* C24: the timestamps of the flow_update messages a channel is sent never
\* decrease, whatever handler called the cycles and in whatever order cycles
\* that overlap finish.
C24_Monotonic ==
    [][\A n \in 1..Len(sent') :
          sent'[n].type = "flow_update" => sent'[n].timestamp >= stamps[sent'[n].to]]_vars

\* A cycle called at a later clock has sent to a channel while a cycle called
\* earlier, with that channel among its clients, still waits.
C24_Witness ==
    /\ CycleFinished
    /\ \E id \in Slots : \E c \in Receivers :
          /\ cycles[id].st = "scanning"
          /\ cycles[id].at < finished.at
          /\ c \in cycles[id].clients
          /\ stamps[c] = finished.at

\* The earlier cycle finishes after the later one has, and sends to the
\* channels then.
C24_OlderLast ==
    /\ CycleFinished
    /\ finished.at < now
    /\ Receivers # {}
    /\ \A c \in Receivers : stamps[c] = now
    /\ \A id \in Slots : cycles[id].st # "scanning"

\* The signals of data are in the order of their scores, highest first.
Descending(data) ==
    \A i \in 1..(Len(data) - 1) : data[i].score >= data[i + 1].score

\* C25: the signals of every flow_update and of every reply of GET /api/flow
\* are sorted by score, highest first, in whatever order the scans finished.
C25_Sorted ==
    \A n \in 1..Len(sent) :
        sent[n].type \in {"flow_update", "http_flow"} => Descending(sent[n].data)

\* A flow_update in which a signal of GME, the last ticker scanned, stands
\* before a lower-scored signal of a ticker scanned before it.
C25_Witness ==
    \E n \in 1..Len(sent) :
        /\ sent[n].type = "flow_update"
        /\ \E i \in 1..(Len(sent[n].data) - 1) :
              /\ sent[n].data[i].ticker = "GME"
              /\ sent[n].data[i + 1].ticker # "GME"
              /\ sent[n].data[i].score > sent[n].data[i + 1].score

\* A reply of GET /api/flow?tickers=GME,SPY that starts with a signal of SPY
\* and carries signals of GME, sent when a response for GME arrived.
C25_ReplyReordered ==
    \E n \in 1..Len(sent) :
        /\ sent[n].type = "http_flow"
        /\ lastEv.type = "response"
        /\ Len(sent[n].data) >= 2
        /\ sent[n].data[1].ticker = "SPY"
        /\ \E i \in 2..Len(sent[n].data) : sent[n].data[i].ticker = "GME"

\* The cycle in slot id was called with channel c open and still waits.
WaitsFor(id, c) == cycles[id].st = "scanning" /\ c \in cycles[id].clients

\* The cycle in slot id has just sent its flow_update to channel c.
SentBy(id, c) == CycleFinished /\ finished.slot = id /\ c \in Receivers

\* The connection handler has called broadcastFlow: the universe has been
\* read and the scans have run, and the flow_update has gone to the new
\* channel or the cycle waits for responses with the channel among its clients.
ConnectBroadcasts ==
    lastEv.type = "connect" =>
        /\ started = TRUE
        /\ universe # <<>>
        /\ \/ finished.some /\ finished.slot = 0 /\ lastEv.conn \in Receivers
           \/ \E id \in Slots : WaitsFor(id, lastEv.conn) /\ cycles[id].at = now

\* C26: a channel that opens starts a broadcast cycle in the same step,
\* and if the channel stays open and the requests of the cycle settle, the
\* cycle sends its flow_update to the channel.
C26_OnConnect ==
    /\ []ConnectBroadcasts
    /\ \A id \in Slots : \A c \in Conns :
          WaitsFor(id, c) ~> (SentBy(id, c) \/ readyState[c] # WS_OPEN)

\* A channel has opened with the responses of SPY missing and the cycle its
\* handler called waits for them.
C26_Witness ==
    /\ lastEv.type = "connect"
    /\ \E id \in Slots : WaitsFor(id, lastEv.conn) /\ cycles[id].at = now

\* The cycle has sent its flow_update to a channel that was open when it was
\* called and has stayed open.
C26_Received ==
    \E id \in Slots : \E c \in Conns :
        SentBy(id, c) /\ c \in finished.clients /\ readyState[c] = WS_OPEN

\* A channel has opened while an earlier cycle waits, and a second cycle
\* was called for it.
C26_SecondCycle ==
    /\ lastEv.type = "connect"
    /\ \A id \in Slots : cycles[id].st = "scanning"
    /\ \E id \in Slots : lastEv.conn \notin cycles[id].clients

\* A channel has opened with every response cached: the flow_update went to
\* it in the same step.
C26_AtOnce ==
    /\ lastEv.type = "connect"
    /\ finished.some
    /\ finished.slot = 0
    /\ lastEv.conn \in Receivers

\* ------------------------------------------- claims on the universe

\* The tickers of the accepted subscribe the last step handled, upper-cased.
NewSubs == Range(MapUpper(lastEv.tickers))

\* The tickers the subscribe has added to the connection's set, and those it
\* has taken from it.
NewlySubscribed == NewSubs \ Range(lastEv.subsBefore)
Unsubscribed == Range(lastEv.subsBefore) \ NewSubs

\* t is a default ticker, or one of the first twelve non-default keys of the
\* registry reg.
FitsUnderCap(reg, t) ==
    \/ t \in Range(FEED_TICKERS)
    \/ \E i \in 1..Len(reg) :
          /\ reg[i].k = t
          /\ Cardinality({j \in 1..i : reg[j].k \notin Range(FEED_TICKERS)})
                 <= MAX_TICKERS - Len(FEED_TICKERS)

\* No other connection held t in the registry reg: the count of t was 1, or
\* t had no entry.
LastHolder(reg, t) == \A i \in 1..Len(reg) : reg[i].k = t => reg[i].n <= 1

\* C27: an accepted subscribe updates the registry and calls the
\* broadcast in the same step; the cycle scans the universe of the updated
\* registry: every newly subscribed ticker under the cap, and no non-default
\* ticker whose count the update has brought to 0.
C27_UpdatedUniverse ==
    lastEv.type = "subscribe" =>
        /\ started = TRUE
        /\ universe = getTickersToScan(dynamicTickers)
        /\ \A t \in NewlySubscribed :
              FitsUnderCap(dynamicTickers, t) => t \in Range(universe)
        /\ \A t \in Unsubscribed :
              (LastHolder(lastEv.regBefore, t) /\ t \notin Range(FEED_TICKERS))
                  => t \notin Range(universe)

\* A subscribe has replaced the connection's tickers: the cycle it called
\* scans a new one and not the one given up.
C27_Witness ==
    /\ lastEv.type = "subscribe"
    /\ \E t \in NewlySubscribed : t \notin Range(FEED_TICKERS) /\ t \in Range(universe)
    /\ \E t \in Unsubscribed :
          /\ t \notin Range(FEED_TICKERS)
          /\ LastHolder(lastEv.regBefore, t)
          /\ t \notin Range(universe)

\* A newly subscribed ticker does not fit under the cap and is not scanned.
C27_OverCap ==
    /\ lastEv.type = "subscribe"
    /\ \E t \in NewlySubscribed :
          ~FitsUnderCap(dynamicTickers, t) /\ t \notin Range(universe)

\* A ticker given up by one connection is still held by another, and scanned.
C27_StillHeld ==
    /\ lastEv.type = "subscribe"
    /\ \E t \in Unsubscribed :
          ~LastHolder(lastEv.regBefore, t) /\ t \in Range(universe)

IsNonDefault(t) == t \notin Range(FEED_TICKERS)

\* The non-default keys of the registry reg, in the order of the Map.
NonDefaultKeys(reg) == SelectSeq(MapKeys(reg), IsNonDefault)

\* C28: the universe is the 8 default tickers in their fixed order, then
\* the non-default keys of the registry in the order of their insertion, cut
\* at 20: at most 12 non-default tickers, and the ones left out are the ones
\* inserted last.  The universe a cycle has read is that one.
C28_OrderStable ==
    LET U == getTickersToScan(dynamicTickers)
        nd == NonDefaultKeys(dynamicTickers)
    IN  /\ Len(U) <= 20
        /\ SubSeq(U, 1, 8) = FEED_TICKERS
        /\ SubSeq(U, 9, Len(U)) = SubSeq(nd, 1, IF Len(nd) < 12 THEN Len(nd) ELSE 12)
        /\ Cardinality({i \in 1..Len(U) : IsNonDefault(U[i])}) <= 12
        /\ \A i, j \in 1..Len(nd) :
              (nd[i] \in Range(U) /\ nd[j] \notin Range(U)) => i < j
        /\ universe # <<>> => universe = U

\* A cycle has read the universe with more than 12 non-default keys in the
\* registry: 20 tickers, the key inserted last not among them.
C28_Witness ==
    LET nd == NonDefaultKeys(dynamicTickers) IN
    /\ Len(nd) > 12
    /\ Len(universe) = 20
    /\ nd[Len(nd)] \notin Range(universe)
    /\ nd[1] \in Range(universe)

\* A default ticker is a key of the registry: the universe has it once, at its
\* place among the defaults.
C28_DefaultFollowed ==
    /\ \E i \in 1..Len(dynamicTickers) : ~IsNonDefault(dynamicTickers[i].k)
    /\ \E i \in 1..Len(dynamicTickers) : IsNonDefault(dynamicTickers[i].k)
    /\ universe # <<>>
    /\ Len(universe) = 8 + Len(NonDefaultKeys(dynamicTickers))

\* A key deleted by one subscribe and set again by the next stands after the
\* keys that stayed.
C28_Reinserted ==
    /\ lastEv.type = "subscribe"
    /\ lastEv.again
    /\ universe # <<>>
    /\ \E i \in 1..Len(lastEv.reg2) : \E j \in 1..Len(dynamicTickers) :
          /\ lastEv.reg2[i].k = dynamicTickers[j].k
          /\ IsNonDefault(dynamicTickers[j].k)
          /\ ~MapHas(lastEv.regBefore, dynamicTickers[j].k)
          /\ j = Len(dynamicTickers)
          /\ \E e \in 1..(j - 1) : \E b \in (i + 1)..Len(lastEv.reg2) :
                /\ dynamicTickers[e].k = lastEv.reg2[b].k
                /\ IsNonDefault(dynamicTickers[e].k)

\* ---------------------------------------------- claims on the cache size

\* The request keys scans of MAX_TICKERS tickers produce at most: for each
\* ticker its quote, its expirations and the chains of three expirations.
ScanKeyBound == MAX_TICKERS * (2 + 3)

\* C29: the cache never holds more entries than the request keys that
\* scans of at most 20 tickers can produce, whatever requests have run.
C29_CacheBounded == Cardinality(DOMAIN cache) <= ScanKeyBound

\* Every entry of the cache is a quote that has not expired.
C29_AllLive ==
    \A k \in DOMAIN cache : k.path = "/markets/quotes" /\ ~Expired(cache[k], now)

\* ------------------------------------------------ claims on the timer

\* The cache c holds an entry for key that has not expired at t.
Answers(c, key, t) == key \in DOMAIN c /\ ~Expired(c[key], t)

\* The quote and expirations requests of the tickers that the cache cannot
\* answer at t.
Missing(tickers, c, t) ==
    {k \in UNION {{QuoteKey(tickers[i]), ExpKey(tickers[i])} : i \in 1..Len(tickers)} :
        ~Answers(c, k, t)}

\* The timer has fired with a channel open: the cycle has started, over the
\* universe of the registry, and has sent every request the cache could not
\* answer.
TimerStarts ==
    (lastEv'.type = "timer" /\ OpenClients(readyState) # {}) =>
        /\ started' = TRUE
        /\ universe' = getTickersToScan(dynamicTickers)
        /\ Missing(universe', cache, now) \subseteq issued'

\* C30: whatever has failed before - a request of an earlier cycle, a
\* subscribe that was denied or threw, a channel that closed while a cycle was
\* waiting - every tick of the timer with a channel open starts a cycle, and
\* the cycle sends anew every request the cache does not answer.
C30_TimerGoesOn == [][TimerStarts]_vars

\* The quote request of SPY has failed in an earlier cycle (the expirations
\* are cached and the quote is not): the timer's cycle sends it again.
C30_Witness ==
    /\ lastEv.type = "timer"
    /\ started = TRUE
    /\ ExpKey("SPY") \in DOMAIN cache
    /\ QuoteKey("SPY") \notin DOMAIN cache
    /\ QuoteKey("SPY") \in issued
    /\ ExpKey("SPY") \notin issued

\* A channel has closed while a cycle was waiting, and is still waiting; the
\* timer has fired since and started a second cycle for the channel left.
C30_ClosedMidCycle ==
    /\ lastEv.type = "timer"
    /\ started = TRUE
    /\ \E old, new \in Slots : \E c \in Conns :
          /\ cycles[old].st = "scanning" /\ cycles[new].st = "scanning"
          /\ readyState[c] = WS_CLOSED
          /\ c \in cycles[old].clients
          /\ c \notin cycles[new].clients
          /\ cycles[new].clients # {}
          /\ issued # {}

\* A subscribe has just been denied, and one has just thrown, with a channel
\* open for the next tick.
C30_AfterDenied == lastEv.type = "denied" /\ OpenClients(readyState) # {}

C30_AfterInvalid == lastEv.type = "invalid" /\ OpenClients(readyState) # {}

\* A subscribe has thrown before (the connection is premium, and no subscribe
\* is accepted in SpecTimer), and the timer's cycle is under way.
C30_TimerAfterInvalid ==
    /\ lastEv.type = "timer"
    /\ started = TRUE
    /\ issued # {}
    /\ \E c \in Conns : readyState[c] = WS_OPEN /\ isPremium[c]

\* ------------------------------------------- claims on the on-demand scan

\* The tickers the caller of the last step has asked for: the ones given, or
\* the default list when none was given.
AskedFor == IF lastEv'.tickers = <<>> THEN FEED_TICKERS ELSE lastEv'.tickers

\* Nothing but replies to the caller is sent.
OnlyReplies == \A n \in 1..Len(sent') : sent'[n].type = "http_flow" /\ sent'[n].to = 0

\* The step is a request of GET /api/flow: the scans of the tickers asked
\* for, and of no other, have started; the scheduler is not called; the
\* registry, the subscription sets and the channels are as they were.
OnDemandStart ==
    lastEv'.type = "api_flow" =>
        /\ UNCHANGED <<readyState, clientSubscriptions, isPremium, dynamicTickers, stamps>>
        /\ started' = NoCycle
        /\ universe' = <<>>
        /\ OnlyReplies
        /\ Missing(AskedFor, cache, now) \subseteq issued'
        /\ \A k \in issued' : k.symbol \in Range(AskedFor)
        /\ cycles' # cycles =>
              \E id \in CycleIds :
                  /\ cycles'[id].st = "serving"
                  /\ cycles'[id].tickers = AskedFor
                  /\ Len(cycles'[id].scans) = Len(AskedFor)

\* The step is a response to a request of an on-demand scan: the same holds.
OnDemandResponse ==
    (\E id \in CycleIds : cycles[id].st = "serving" /\ cycles'[id] # cycles[id]) =>
        /\ UNCHANGED <<readyState, clientSubscriptions, isPremium, dynamicTickers, stamps>>
        /\ started' = NoCycle
        /\ OnlyReplies

\* C31: GET /api/flow scans the tickers given by the caller, or the default
\* list when none is given, without going through the scheduler; it changes
\* neither the registry nor a subscription set nor the channels, and sends
\* nothing on a channel.
C31_OnDemandFrame == [][OnDemandStart /\ OnDemandResponse]_vars

\* A request without tickers waits for the responses of SPY, scanning the
\* default list, while a viewer's channel is open.
C31_Witness ==
    /\ lastEv.type = "api_flow"
    /\ lastEv.tickers = <<>>
    /\ readyState[1] = WS_OPEN
    /\ \E id \in CycleIds :
          cycles[id].st = "serving" /\ cycles[id].tickers = FEED_TICKERS

\* A request for GME and SPY has been answered with signals after its last
\* response arrived, the viewer's channel being open.
C31_Replied ==
    /\ lastEv.type = "response"
    /\ readyState[1] = WS_OPEN
    /\ Len(sent) = 1
    /\ sent[1].type = "http_flow"
    /\ \E n \in 1..Len(sent[1].data) : sent[1].data[n].ticker = "GME"

\* ------------------------------------------------ claims on the snapshot

\* The flow_update messages the step sends.
Updates == {n \in 1..Len(sent') : sent'[n].type = "flow_update"}

\* Every flow_update of the step carries the same payload, whose stats count
\* its signals and the tickers, and whose signals are of those tickers.
SnapshotOf(tickers) ==
    \A n \in Updates :
        /\ sent'[n].results = Len(sent'[n].data)
        /\ sent'[n].scanning = Len(tickers)
        /\ \A i \in 1..Len(sent'[n].data) :
              sent'[n].data[i].ticker \in Range(MapUpper(tickers))
        /\ Len(sent'[n].data) = Cardinality(Range(sent'[n].data))
        /\ \A m \in Updates :
              /\ sent'[m].data = sent'[n].data
              /\ sent'[m].timestamp = sent'[n].timestamp
              /\ sent'[m].scanning = sent'[n].scanning
              /\ sent'[m].results = sent'[n].results

\* The signals of the step's flow_update are those the scans of cycle cy had
\* returned and those of the scan that returns in the step.
ScansOf(cy) ==
    LET done == {i \in 1..Len(cy.scans) : cy.scans[i].phase = "done"}
        had == UNION {Range(cy.scans[i].out) : i \in done}
    IN  \A n \in Updates :
            /\ had \subseteq Range(sent'[n].data)
            /\ \A x \in Range(sent'[n].data) \ had :
                  \E i \in (1..Len(cy.scans)) \ done :
                      x.ticker = toUpperCase(cy.tickers[i])

OneSnapshot ==
    /\ Updates # {} => finished'.some
    /\ (finished'.some /\ finished'.slot = 0) => SnapshotOf(universe')
    /\ (finished'.some /\ finished'.slot # 0) =>
          /\ SnapshotOf(cycles[finished'.slot].tickers)
          /\ ScansOf(cycles[finished'.slot])

\* C32: every flow_update is the snapshot of one cycle: its signals are
\* the results of that cycle's scans and of no other cycle's, every channel
\* the cycle writes to gets the same payload, stats.results counts the signals
\* and stats.scanning the universe the cycle read when it started.
C32_OneSnapshot == [][OneSnapshot]_vars

\* A cycle that read a universe of 8 tickers has sent its snapshot after GME
\* entered the registry, while a cycle that read 9 tickers waits.
C32_Witness ==
    /\ CycleFinished
    /\ Receivers # {}
    /\ MapHas(dynamicTickers, "GME")
    /\ \A n \in 1..Len(sent) : sent[n].scanning = 8
    /\ \E id \in Slots : cycles[id].st = "scanning" /\ Len(cycles[id].tickers) = 9

\* Two channels have received the snapshot of one cycle.
C32_TwoReceivers ==
    /\ CycleFinished
    /\ Receivers = {1, 2}
    /\ sent[1].results > 0

\* ---------------------------------------------- claims on concurrency

\* The keys of the requests in flight.
InFlight == {call.key : call \in calls}

\* A cycle or an on-demand scan has started: every quote and expirations
\* request the cache cannot answer, of every ticker, has been sent in that
\* step.
AllStarted ==
    /\ (lastEv'.type = "timer" /\ universe' # <<>>) =>
          Missing(universe', cache, now) \subseteq (issued' \cap {call.key : call \in calls'})
    /\ lastEv'.type = "api_flow" =>
          Missing(AskedFor, cache, now) \subseteq (issued' \cap {call.key : call \in calls'})

\* A response that arrives is stored, whatever else is in flight.
Stored == \A k \in wrote' : Answers(cache', k, now)

\* C33: the requests of a cycle are all sent before any is awaited: while
\* a request of one ticker stays unanswered, the quote and expirations
\* requests of the other tickers are in flight, and the response to any of
\* them is written to the cache when it arrives.
C33_StartedTogether == [][AllStarted /\ Stored]_vars

\* Neither request of SPY has been answered, and the quote, the expirations
\* and a chain of GME are in the cache.
C33_Witness ==
    /\ {QuoteKey("SPY"), ExpKey("SPY")} \subseteq InFlight
    /\ \E id \in CycleIds : cycles[id].st = "scanning"
    /\ {QuoteKey("GME"), ExpKey("GME")} \subseteq DOMAIN cache
    /\ \E k \in DOMAIN cache : k.symbol = "GME" /\ k.path = "/markets/options/chains"

\* The same with SPY answered and GME waiting.
C33_OtherWay ==
    /\ {QuoteKey("GME"), ExpKey("GME")} \subseteq InFlight
    /\ {QuoteKey("SPY"), ExpKey("SPY")} \subseteq DOMAIN cache
    /\ \E k \in DOMAIN cache : k.symbol = "SPY" /\ k.path = "/markets/options/chains"

\* A cycle has just started and the four requests are in flight together.
C33_FourInFlight ==
    /\ lastEv.type = "timer"
    /\ issued = {QuoteKey("SPY"), ExpKey("SPY"), QuoteKey("GME"), ExpKey("GME")}
    /\ issued \subseteq InFlight

\* ------------------------------------------- one registry read per cycle

\* A cycle that starts in the step has read its universe and the isDynamic of
\* each of its scans from the registry the step leaves.
ReadTogether ==
    \A id \in Slots :
        (cycles[id].st = "free" /\ cycles'[id].st = "scanning") =>
            /\ cycles'[id].tickers = getTickersToScan(dynamicTickers')
            /\ \A i \in 1..Len(cycles'[id].scans) :
                  cycles'[id].scans[i].dyn =
                      MapHas(dynamicTickers', toUpperCase(cycles'[id].tickers[i]))

\* A cycle that goes on waiting keeps its universe and the isDynamic of each
\* scan, whatever the step does to the registry.
KeptInFlight ==
    \A id \in Slots :
        (cycles[id].st = "scanning" /\ cycles'[id].st = "scanning") =>
            /\ cycles'[id].tickers = cycles[id].tickers
            /\ \A i \in 1..Len(cycles[id].scans) :
                  cycles'[id].scans[i].dyn = cycles[id].scans[i].dyn

\* A scan that waits for chains has asked for those of its own isDynamic.
DepthOfScan ==
    \A id \in Slots :
        cycles'[id].st = "scanning" =>
            \A i \in 1..Len(cycles'[id].scans) :
                cycles'[id].scans[i].phase = "p2" =>
                    ChainsAsked(cycles'[id].scans[i]) =
                        FirstChains(cycles'[id].tickers[i],
                                    IF cycles'[id].scans[i].dyn THEN 3 ELSE 1)

\* The GME contract of the first expiration, which scores under 40, and the
\* one of the second expiration.
LowOfFirst(data) == \E i \in 1..Len(data) : data[i].id = "GME261106C00030000"
OfSecond(data) == \E i \in 1..Len(data) : data[i].id = "GME261113C00035000"

\* In a snapshot the depth and the threshold of the GME scan agree: the
\* contract of the second expiration is there (depth 3) exactly when the one
\* scored under 40 is (threshold 30).
DepthMeetsThreshold ==
    \A n \in Updates :
        /\ LowOfFirst(sent'[n].data) <=> OfSecond(sent'[n].data)
        /\ \A i \in 1..Len(sent'[n].data) :
              sent'[n].data[i].id = "GME261106C00030000" =>
                  sent'[n].data[i].score \in 30..39

\* C34: a cycle reads its universe and the isDynamic of every scan from one
\* registry state, and a scan keeps that isDynamic for its depth and its
\* threshold while subscribes and closes change the registry.
C34_OneRegistryRead ==
    [][ReadTogether /\ KeptInFlight /\ DepthOfScan /\ DepthMeetsThreshold]_vars

\* The viewer who followed GME has gone while a cycle waited for the chains
\* of GME; the cycle has sent a snapshot with GME scanned at depth 3 and
\* threshold 30, GME being out of the registry.
C34_Witness ==
    /\ finished.some /\ finished.slot # 0
    /\ ~MapHas(dynamicTickers, "GME")
    /\ \E n \in 1..Len(sent) :
          /\ sent[n].type = "flow_update"
          /\ LowOfFirst(sent[n].data)
          /\ OfSecond(sent[n].data)

\* A cycle waits for three chains of GME, which has left the registry.
C34_LeftInFlight ==
    /\ ~MapHas(dynamicTickers, "GME")
    /\ \E id \in Slots :
          /\ cycles[id].st = "scanning"
          /\ \E i \in 1..Len(cycles[id].scans) :
                /\ cycles[id].tickers[i] = "GME"
                /\ cycles[id].scans[i].phase = "p2"
                /\ Cardinality(ChainsAsked(cycles[id].scans[i])) = 3

\* A subscribe has started a second cycle while the first waits.
C34_SubscribedInFlight ==
    /\ lastEv.type = "subscribe"
    /\ \A id \in Slots : cycles[id].st = "scanning"

\* ------------------------------------------ one upstream call per key

\* C35: at most one upstream call for a request key is in flight at any
\* time, also when cycles started by a connect, a subscribe and the timer
\* overlap and all miss the cache for the key.
C35_OneInFlight ==
    \A a, b \in calls : a.key = b.key => a = b

\* Two cycles each wait for their own upstream call for the quote of SPY.
C35_SameKeyTwice ==
    \E a, b \in calls :
        /\ a.key = QuoteKey("SPY") /\ b.key = QuoteKey("SPY")
        /\ a.cycle # b.cycle
        /\ a.ttl = QUOTE_TTL /\ b.ttl = QUOTE_TTL

\* ----------------------------------------------- how old a hit may be

\* The value the step's tradierFetch returned from the cache was obtained
\* from the provider no more than ttl ms before.
FreshWithin(ttl) ==
    cacheRet'.op = "hit" =>
        /\ lastSet[cacheRet'.key].set
        /\ cacheRet'.ret = lastSet[cacheRet'.key].value
        /\ now - lastSet[cacheRet'.key].at <= ttl

\* C36: a value returned by tradierFetch(key, ttl) was obtained from the
\* provider no more than ttl before the call, also for the chain key, which
\* the scan fetches with 20 s and the chain route with 15 s.
C36_Fresh ==
    [][/\ lastEv'.type = "api_chain" => FreshWithin(CHAIN_ROUTE_TTL)
       /\ lastEv'.type = "fetch" => FreshWithin(CHAIN_TTL)]_vars

\* The chain route has answered from the cache with a chain the scan stored
\* 17.5 s before.
C36_StaleForRoute ==
    /\ lastEv.type = "api_chain"
    /\ cacheRet.op = "hit"
    /\ lastSet[FreshKey].ttl = CHAIN_TTL
    /\ now - lastSet[FreshKey].at = 17500

\* What does hold: a hit is no older than the ttl the value was stored with.
C36_WithinStoredTtl ==
    cacheRet.op = "hit" =>
        cacheRet.at - lastSet[cacheRet.key].at <= lastSet[cacheRet.key].ttl

\* The scan's fetch has been answered from the cache with a chain the route
\* stored.
C36_RouteFeedsScan ==
    /\ lastEv.type = "fetch"
    /\ cacheRet.op = "hit"
    /\ lastSet[FreshKey].ttl = CHAIN_ROUTE_TTL

\* ------------------------------------------- the order of the snapshots

\* C37: snapshots reach the channels in the order their cycles started: a
\* cycle sends no flow_update while a cycle that started before it still
\* waits for its responses.
C37_InStartOrder ==
    [][(finished'.some /\ Updates # {}) =>
          \A id \in Slots :
              cycles'[id].st = "scanning" => cycles'[id].at >= finished'.at]_vars

\* The cycle that read 8 tickers before GME was subscribed has sent its
\* snapshot last: no cycle waits, GME is in the registry, and the snapshot the
\* channel holds counts 8 tickers.
C37_OlderRegistryLast ==
    /\ CycleFinished
    /\ finished.slot # 0
    /\ \A id \in Slots : cycles[id].st = "free"
    /\ calls = {}
    /\ MapHas(dynamicTickers, "GME")
    /\ \E n \in 1..Len(sent) :
          sent[n].type = "flow_update" /\ sent[n].scanning = 8

\* ------------------------------------------- the premium of a signal

\* The premium the scorer works with (line 115), in dollars.
ScorerPremium == scoreIn.contract.volume * scoreIn.contract.last

C38_UntradedLeftOut ==
    /\ scoreOut.done
    /\ scoreIn.contract.last = 0
    /\ scoreIn.contract.volume * scoreIn.contract.ask >= 1000000
    /\ scoreOut.signals = <<>>

\* ---------------------------------------------- the sum of the points

\* The four components of lines 127-143 for the contract scored.
PointsOfPremium == premiumPoints(ScorerPremium)
PointsOfRatio == ratioPoints(scoreIn.contract.volume, scoreIn.contract.open_interest)
PointsOfAsk ==
    IF 2 * scoreIn.contract.last >= scoreIn.contract.bid + scoreIn.contract.ask
    THEN 20 ELSE 0
PointsOfUrgency == scoreOut.result.score - PointsOfPremium - PointsOfRatio - PointsOfAsk

C39_NoPoints ==
    /\ WasScored
    /\ scoreOut.result.score = 0

\* ------------------------------------------- the client's reconnects

\* The counter is within its limit, no more timer connects were made since
\* the socket last opened than the counter says, and no timer waits once the
\* component has unmounted.
ReconnectBounded ==
    /\ reconnectAttempts \in 0..MAX_RECONNECT_ATTEMPTS
    /\ hookEv.tries <= reconnectAttempts
    /\ ~isMounted => ~reconnectTimer.pending

\* An open resets the counter; a timer is set only by a close, for the k-th
\* attempt with a delay of 5 s x min(k, 4), and fires when that delay has
\* passed; after the unmount nothing counts, sets a timer or connects.
ReconnectStep ==
    /\ hookEv'.type = "open" => (reconnectAttempts' = 0 /\ hookEv'.tries = 0)
    /\ reconnectTimer' # reconnectTimer /\ reconnectTimer'.pending
          /\ hookEv'.type # "clock" =>
          /\ hookEv'.type = "close"
          /\ reconnectAttempts' = reconnectAttempts + 1
          /\ reconnectTimer'.delay = RECONNECT_DELAY_MS * Min(reconnectAttempts', 4)
          /\ reconnectTimer'.left = reconnectTimer'.delay
    /\ reconnectAttempts' > reconnectAttempts => reconnectTimer'.pending
    /\ hookEv'.type = "timer" => reconnectTimer.left = 0
    /\ ~isMounted =>
          /\ reconnectAttempts' = reconnectAttempts
          /\ reconnectTimer' = reconnectTimer
          /\ wsRef' \in {wsRef, "closed"}
          /\ ~isMounted'

\* C40: the reconnect attempts since the last open never exceed 10, every
\* open returns the counter to 0, the k-th attempt is scheduled 5 s x
\* min(k, 4) after the close, and after the unmount no close schedules a
\* reconnect and a pending timer is cancelled.
C40_Reconnects == []ReconnectBounded /\ [][ReconnectStep]_vars

\* The tenth reconnect has failed: the socket is closed, the counter is at
\* 10 and no timer is set to fire.
C40_Witness ==
    /\ isMounted
    /\ wsRef = "closed"
    /\ hookEv = HookEvent("close", MAX_RECONNECT_ATTEMPTS)
    /\ reconnectAttempts = MAX_RECONNECT_ATTEMPTS
    /\ ~reconnectTimer.pending

\* The socket has opened on an attempt that was scheduled with 20 s.
C40_ResetOnOpen ==
    /\ hookEv.type = "open"
    /\ reconnectAttempts = 0
    /\ reconnectTimer.delay = 4 * RECONNECT_DELAY_MS

\* The component has unmounted with 10 of the 15 s of its timer left.
C40_Cancelled ==
    /\ ~isMounted
    /\ reconnectTimer.set
    /\ reconnectTimer.delay = 3 * RECONNECT_DELAY_MS
    /\ reconnectTimer.left = 2 * RECONNECT_DELAY_MS

\* The socket the cleanup closed has had its close event.
C40_ClosedAfterUnmount ==
    /\ ~isMounted
    /\ hookEv.type = "close"
    /\ wsRef = "closed"
    /\ reconnectAttempts = 0

====
